---- MODULE Spec2Model ----
(***************************************************************************)
(* A model of PyTrx's camera environment (CamEnv.py: CamCalib, CamEnv) and *)
(* of its point tracking (Velocity.py).                                    *)
(*                                                                         *)
(* Numbers.  numpy floats are modelled as extended rationals <<n, d>> with *)
(* d >= 0 in lowest terms: <<n, d>> with d > 0 is n/d, <<1, 0>> is +inf,   *)
(* <<-1, 0>> is -inf and <<0, 0>> is not-a-number.  Rounding is not        *)
(* modelled.  Angles are whole quarter turns, given in degrees, for which  *)
(* sine and cosine are taken as exactly -1, 0 or 1.                        *)
(***************************************************************************)
EXTENDS Integers, Sequences, FiniteSets, TLC

----------------------------------------------------------------------------
(* Bounds of the model *)

\* world coordinates passed to project range over -MaxCoord..MaxCoord
MaxCoord == 2
\* number of calls of invproject that are followed
MaxCalls == 3
\* number of DEM cells (flattened row-major)
NCells == 4
\* radial coefficient lists given to CamCalib have 0..MaxRad entries
MaxRad == 7
\* tangential coefficient lists given to CamCalib have 0..MaxTan entries
MaxTan == 3
\* number of seed points given to featureTrack
MaxSeeds == 2

----------------------------------------------------------------------------
(* Float arithmetic *)

Abs(n) == IF n < 0 THEN -n ELSE n

Sign(n) == IF n < 0 THEN -1 ELSE IF n > 0 THEN 1 ELSE 0

RECURSIVE GCD(_, _)
GCD(a, b) == IF b = 0 THEN a ELSE GCD(b, a % b)

NaN == <<0, 0>>

\* the float n/d for integers n, d; x/0 is +-inf and 0/0 is nan, as in numpy
Frac(n, d) ==
    IF d = 0 THEN <<Sign(n), 0>>
    ELSE LET g == GCD(Abs(n), Abs(d))
         IN  <<Sign(d) * (n \div g), Abs(d) \div g>>

F(n) == <<n, 1>>

IsNaN(a) == a = NaN

IsFinite(a) == a[2] > 0

FMul(a, b) ==
    IF IsNaN(a) \/ IsNaN(b) THEN NaN
    ELSE IF a[2] = 0 \/ b[2] = 0 THEN <<Sign(a[1]) * Sign(b[1]), 0>>
    ELSE Frac(a[1] * b[1], a[2] * b[2])

FAdd(a, b) ==
    IF IsNaN(a) \/ IsNaN(b) THEN NaN
    ELSE IF a[2] = 0 /\ b[2] = 0 THEN (IF a = b THEN a ELSE NaN)
    ELSE IF a[2] = 0 THEN a
    ELSE IF b[2] = 0 THEN b
    ELSE Frac(a[1] * b[2] + b[1] * a[2], a[2] * b[2])

\* a <= b; every comparison with nan is false
FLeq(a, b) ==
    IF IsNaN(a) \/ IsNaN(b) THEN FALSE
    ELSE IF a[2] = 0 /\ b[2] = 0 THEN a[1] <= b[1]
    ELSE IF a[2] = 0 THEN a[1] < 0
    ELSE IF b[2] = 0 THEN b[1] > 0
    ELSE a[1] * b[2] <= b[1] * a[2]

FGeq(a, b) == FLeq(b, a)

----------------------------------------------------------------------------
(* Rotation matrix *)

Angles == {-90, 0, 90, 180}

Cos(a) == CASE a = 0 -> 1 [] a = 180 -> -1 [] OTHER -> 0

Sin(a) == CASE a = 90 -> 1 [] a = -90 -> -1 [] OTHER -> 0

\* getR with the sign of the sine of the pitch in the view axis slipped
getR_pitchSign(dir) ==
    LET C == [i \in 1..3 |-> Cos(dir[i])]
        S == [i \in 1..3 |-> Sin(dir[i])]
        p == <<S[3]*S[2]*C[1] - C[3]*S[1], S[3]*S[2]*S[1] + C[3]*C[1], S[3]*C[2]>>
        q == <<C[3]*S[2]*C[1] + S[3]*S[1], C[3]*S[2]*S[1] - S[3]*C[1], C[3]*C[2]>>
        r == <<C[2]*C[1], C[2]*S[1], S[2]>>
    IN  << <<-p[1], -p[2], -p[3]>>, <<-q[1], -q[2], -q[3]>>, r >>

\* getR with the roll in place of the pitch in the view axis
getR_rollInAxis(dir) ==
    LET C == [i \in 1..3 |-> Cos(dir[i])]
        S == [i \in 1..3 |-> Sin(dir[i])]
        p == <<S[3]*S[2]*C[1] - C[3]*S[1], S[3]*S[2]*S[1] + C[3]*C[1], S[3]*C[2]>>
        q == <<C[3]*S[2]*C[1] + S[3]*S[1], C[3]*S[2]*S[1] - S[3]*C[1], C[3]*C[2]>>
        r == <<C[2]*C[1], C[2]*S[1], -S[3]>>
    IN  << <<-p[1], -p[2], -p[3]>>, <<-q[1], -q[2], -q[3]>>, r >>

\* CamEnv.getR for a view direction dir = <<yaw, pitch, roll>>
getR(dir) ==
    LET C == [i \in 1..3 |-> Cos(dir[i])]
        S == [i \in 1..3 |-> Sin(dir[i])]
        p == <<S[3]*S[2]*C[1] - C[3]*S[1], S[3]*S[2]*S[1] + C[3]*C[1], S[3]*C[2]>>
        q == <<C[3]*S[2]*C[1] + S[3]*S[1], C[3]*S[2]*S[1] - S[3]*C[1], C[3]*C[2]>>
        r == <<C[2]*C[1], C[2]*S[1], -S[2]>>
    IN  << <<-p[1], -p[2], -p[3]>>, <<-q[1], -q[2], -q[3]>>, r >>

Transpose(M) == [i \in 1..3 |-> [j \in 1..3 |-> M[j][i]]]

\* np.dot of a row vector and a 3x3 matrix
RowDot(v, M) == [k \in 1..3 |-> v[1]*M[1][k] + v[2]*M[2][k] + v[3]*M[3][k]]

MatMul(A, B) == [i \in 1..3 |-> RowDot(A[i], B)]

Det(M) ==
      M[1][1] * (M[2][2]*M[3][3] - M[2][3]*M[3][2])
    - M[1][2] * (M[2][1]*M[3][3] - M[2][3]*M[3][1])
    + M[1][3] * (M[2][1]*M[3][2] - M[2][2]*M[3][1])

Identity3 == << <<1, 0, 0>>, <<0, 1, 0>>, <<0, 0, 1>> >>

----------------------------------------------------------------------------
(* State *)

VARIABLES
    attrs,          \* names of the attributes the camera object has
    intrMat,        \* CamCalib._intrMat
    tanCorr,        \* CamCalib._tanCorr
    radCorr,        \* CamCalib._radCorr
    focLen,         \* CamCalib._focLen
    camCen,         \* CamCalib._camCen
    intrMatCV2,     \* CamCalib._intrMatCV2: <<>> for None
    camloc,         \* CamEnv._camloc
    camDirection,   \* CamEnv._camDirection, <<yaw, pitch, roll>> in degrees
    refImage,       \* size of CamEnv._refImage, <<rows, columns>>
    calibPath,      \* CamEnv._calibPath, the calibration the camera is made from
    DEM,            \* CamEnv._DEM: <<>> for None, else the sequence of cells
    invProjVars,    \* CamEnv._invProjVars: <<>> for None, else <<X, Y, Z, uv0>>
    visible,        \* CamEnv._visible: the viewshed, one flag per DEM cell
    arg,            \* the argument of the last call
    ret,            \* the outcome of the last call
    nBuild,         \* number of runs of _setInvProjVars so far
    nCalls,         \* number of calls of invproject so far
    imageSet,       \* numbers of the images whose data the ImageSequence holds
    im0,            \* number of the image held by the local im0 of a run
    im1,            \* number of the image held by the local im1 of a run
    pair,           \* the loop variable i of a run over the image pairs
    velocity,       \* the list a run over the image pairs has built so far
    pc              \* where a run over the image pairs stands

vars == <<attrs, intrMat, tanCorr, radCorr, focLen, camCen, intrMatCV2, camloc,
          camDirection, refImage, calibPath, DEM, invProjVars, visible, arg, ret,
          nBuild, nCalls, imageSet, im0, im1, pair, velocity, pc>>

invVars == <<DEM, invProjVars, visible, nBuild, nCalls>>

calibVars == <<attrs, intrMat, tanCorr, radCorr, focLen, camCen, intrMatCV2>>

poseVars == <<camloc, camDirection, refImage, calibPath>>

seqVars == <<imageSet, im0, im1, pair, velocity, pc>>

NoCall == [op |-> "none"]

\* no image: the value of im0 and im1 outside a run
NoImage == -1

\* no run over the image pairs has started
SeqIdle ==
    /\ imageSet = {}
    /\ im0 = NoImage /\ im1 = NoImage
    /\ pair = 0
    /\ velocity = <<>>
    /\ pc = "idle"

----------------------------------------------------------------------------
(* CamEnv.project *)

\* xyz - self._camloc for one row of xyz, by numpy's broadcasting: a row of
\* three columns is subtracted element by element, a row of one column is
\* stretched to three, and any other shape is a ValueError (<<>> here)
SubCamloc(row, loc) ==
    CASE Len(row) = 3 -> [k \in 1..3 |-> row[k] - loc[k]]
      [] Len(row) = 1 -> [k \in 1..3 |-> row[1] - loc[k]]
      [] OTHER -> <<>>

\* r2 = sum(xy*xy) with "r2[r2>4]=4"
R2(x, y) ==
    IF FLeq(FAdd(FMul(x, x), FMul(y, y)), F(4)) THEN FAdd(FMul(x, x), FMul(y, y))
    ELSE F(4)

\* 1 + k[1] r2 + k[2] r2^2 + k[3] r2^3
Poly3(k, r2) ==
    FAdd(F(1), FMul(r2, FAdd(k[1], FMul(r2, FAdd(k[2], FMul(r2, k[3]))))))

\* the radial factor a of the block under "if False:"
RadFactor(rad, r2) ==
    FMul(Poly3(<<rad[1], rad[2], rad[3]>>, r2),
         Frac(Poly3(<<rad[4], rad[5], rad[6]>>, r2)[2],
              Poly3(<<rad[4], rad[5], rad[6]>>, r2)[1]))

\* pt1 (with w = x) and pt2 (with w = y) of the block under "if False:"
DistortedCoord(w, x, y, rad, tan) ==
    FAdd(FMul(RadFactor(rad, R2(x, y)), w),
         FAdd(FMul(FMul(F(2), tan[1]), FMul(x, y)),
              FMul(tan[2], FAdd(R2(x, y), FMul(F(2), FMul(w, w))))))

\* Perspective followed by the block under "if False:", with the stored
\* coefficients of the camera
Perspective_distorted(c) ==
    <<DistortedCoord(Frac(c[1], c[3]), Frac(c[1], c[3]), Frac(c[2], c[3]), radCorr, tanCorr),
      DistortedCoord(Frac(c[2], c[3]), Frac(c[1], c[3]), Frac(c[2], c[3]), radCorr, tanCorr)>>

\* xy = xyz[:,0:2] / xyz[:,2:3]
Perspective(c) == <<Frac(c[1], c[3]), Frac(c[2], c[3])>>

\* uv = focLen * xy + camCen
Intrinsic(xy, f, c) ==
    <<FAdd(FMul(f[1], xy[1]), c[1]), FAdd(FMul(f[2], xy[2]), c[2])>>

\* MaskBehind that leaves the points of depth 0 as they are
MaskBehind_strict(depth, uv) == IF depth < 0 THEN <<NaN, NaN>> ELSE uv

\* points at or behind the camera get not-a-number pixel coordinates
MaskBehind(depth, uv) == IF depth <= 0 THEN <<NaN, NaN>> ELSE uv

\* InFrame with the rows and the columns of the image size taken for each other
InFrame_swapped(depth, uv, ims) ==
    /\ (depth > 0 /\ FGeq(uv[1], F(1)) /\ FGeq(uv[2], F(1)))
    /\ FLeq(uv[1], F(ims[1]))
    /\ FLeq(uv[2], F(ims[2]))

\* the in-frame test against the image size ims = <<rows, columns>>
InFrame(depth, uv, ims) ==
    /\ (depth > 0 /\ FGeq(uv[1], F(1)) /\ FGeq(uv[2], F(1)))
    /\ FLeq(uv[1], F(ims[2]))
    /\ FLeq(uv[2], F(ims[1]))

\* one row of the result of project, for the row xyz in the camera's frame
projectPixel(xyz, uv, ims) ==
    [uv |-> uv, depth |-> xyz[3], inframe |-> InFrame(xyz[3], uv, ims)]

\* one row of the result of project, for the camera-frame row xyz
projectCamRow(xyz, f, c, ims) ==
    projectPixel(xyz, MaskBehind(xyz[3], Intrinsic(Perspective(xyz), f, c)), ims)

\* one row of the result of project, for the translated row t
projectRow(t, dir, f, c, ims) ==
    projectCamRow(RowDot(t, Transpose(getR(dir))), f, c, ims)

\* the three arrays project returns, from its rows
projectResult(rows) ==
    [op |-> "project", outcome |-> "ok",
     uv      |-> [i \in 1..Len(rows) |-> rows[i].uv],
     depth   |-> [i \in 1..Len(rows) |-> rows[i].depth],
     inframe |-> [i \in 1..Len(rows) |-> rows[i].inframe]]

\* project on the translated rows t
projectFrom(t, dir, f, c, ims) ==
    IF \E i \in 1..Len(t) : t[i] = <<>>
    THEN [op |-> "project", outcome |-> "ValueError"]
    ELSE projectResult([i \in 1..Len(t) |-> projectRow(t[i], dir, f, c, ims)])

\* CamEnv.project(xyz) on a camera with the given attributes
project(xyz, loc, dir, f, c, ims) ==
    projectFrom([i \in 1..Len(xyz) |-> SubCamloc(xyz[i], loc)], dir, f, c, ims)

Coords == -MaxCoord..MaxCoord

\* the column counts of the arrays passed to project: the well-formed one
\* (3) and the malformed ones numpy treats differently (1 broadcasts; 2 and
\* 4 do not)
ColCounts == {1, 2, 3, 4}

\* the one-row arrays passed to project
Arrays == UNION {[1..1 -> [1..n -> Coords]] : n \in ColCounts}

\* a call of project on the array arg; the camera is left as it is
Project ==
    /\ ret = NoCall
    /\ arg \in Arrays
    /\ {"_camloc", "_camDirection", "_refImage", "_focLen", "_camCen"} \subseteq attrs
    /\ ret' = project(arg, camloc, camDirection, focLen, camCen, refImage)
    /\ UNCHANGED <<calibVars, poseVars, invVars, seqVars, arg>>

----------------------------------------------------------------------------
(* A constructed camera *)

\* the intrinsic matrix of the cameras followed, in PyTrx layout
\* (fx 0 0 / s fy 0 / cx cy 1)
RefIntrMat == << <<F(1), F(0), F(0)>>, <<F(0), F(1), F(0)>>, <<F(2), F(1), F(1)>> >>

RefImageSize == <<2, 3>>

\* the calibration of the cameras followed: the raw tuple of RefIntrMat and
\* no distortion
RefCalibPath ==
    [kind |-> "tuple",
     items |-> << [isStr |-> FALSE, readable |-> TRUE,
                   data |-> [intr |-> RefIntrMat, tan |-> <<>>, rad |-> <<>>]] >>]

CamLocs == {<<0, 0, 0>>, <<0, 0, 100>>}

EnvAttrs == {"_camloc", "_camDirection", "_refImage", "_DEM", "_invProjVars"}

CalibAttrs == {"_intrMat", "_tanCorr", "_radCorr", "_calibErr", "_focLen",
               "_camCen", "_intrMatCV2"}

\* the state after CamEnv.__init__ on a well-formed environment
Constructed ==
    /\ attrs = EnvAttrs \cup CalibAttrs
    /\ intrMat = RefIntrMat
    /\ tanCorr = [i \in 1..2 |-> F(0)]
    /\ radCorr = [i \in 1..6 |-> F(0)]
    /\ focLen = <<intrMat[1][1], intrMat[2][2]>>
    /\ camCen = <<intrMat[3][1], intrMat[3][2]>>
    /\ intrMatCV2 = <<>>
    /\ camloc \in CamLocs
    /\ camDirection \in Angles \X Angles \X Angles
    /\ refImage = RefImageSize
    /\ calibPath = RefCalibPath
    /\ DEM = <<>>
    /\ invProjVars = <<>>
    /\ visible = <<>>
    /\ ret = NoCall
    /\ nBuild = 0
    /\ nCalls = 0
    /\ SeqIdle

Init == Constructed /\ arg \in Arrays

Next == Project

Spec == Init /\ [][Next]_vars

----------------------------------------------------------------------------
(* Forward projection: claims C1 to C5 *)

Projected == ret.op = "project" /\ ret.outcome = "ok"

\* the pixel coordinate a lies within 1..n, bounds included
InRange(a, n) == FLeq(F(1), a) /\ FLeq(a, F(n))

\* C1: for every point project returns, the inframe flag is true exactly when
\* the depth is positive, u lies in 1..columns and v lies in 1..rows of the
\* reference image, bounds included.
C1_InFrameIff ==
    Projected =>
        \A i \in 1..Len(ret.uv) :
            ret.inframe[i] <=> /\ ret.depth[i] > 0
                               /\ InRange(ret.uv[i][1], refImage[2])
                               /\ InRange(ret.uv[i][2], refImage[1])

\* a point on the right-hand edge of the image (u = columns) is in frame, and
\* the columns outnumber the rows
C1_Witness ==
    /\ Projected
    /\ ret.inframe[1]
    /\ ret.uv[1][1] = F(refImage[2])
    /\ refImage[2] > refImage[1]

\* C2: a point of depth <= 0 (0 included) gets not-a-number for both pixel
\* coordinates and is not in frame; a point of depth > 0 gets two numbers.
C2_BehindIsNaN ==
    Projected =>
        \A i \in 1..Len(ret.uv) :
            /\ ret.depth[i] <= 0 =>
                  IsNaN(ret.uv[i][1]) /\ IsNaN(ret.uv[i][2]) /\ ~ret.inframe[i]
            /\ ret.depth[i] > 0 =>
                  IsFinite(ret.uv[i][1]) /\ IsFinite(ret.uv[i][2])

\* a point of depth exactly 0, off the optical centre, has been projected
C2_Witness ==
    /\ Projected
    /\ ret.depth[1] = 0
    /\ arg[1] # <<camloc[1], camloc[2], camloc[3]>>
    /\ IsNaN(ret.uv[1][1])

\* the scenario of C3: the camera at (0,0,100), yaw 0 and roll 0, has
\* projected the world point (0,0,0)
C3_Scenario(pitch) ==
    /\ camloc = <<0, 0, 100>>
    /\ camDirection = <<0, pitch, 0>>
    /\ arg = << <<0, 0, 0>> >>
    /\ ret.op = "project"

AtPrincipalPoint == ret.outcome = "ok" /\ ret.depth[1] > 0 /\ ret.uv[1] = camCen

\* C3 as claimed: with pitch = -90 degrees the point (0,0,0) has positive
\* depth and lands on the principal point.
C3_PitchMinus90 == C3_Scenario(-90) => AtPrincipalPoint

\* C3 as amended: with pitch = +90 degrees the point (0,0,0) has positive
\* depth and lands on the principal point (cx, cy); with pitch = -90 degrees
\* it lies behind the camera.
C3_PitchPlus90 ==
    /\ C3_Scenario(90) => AtPrincipalPoint
    /\ C3_Scenario(-90) => ret.outcome = "ok" /\ ret.depth[1] < 0 /\ ~ret.inframe[1]

C3_Witness == C3_Scenario(90) /\ ret.depth[1] = 100

\* C4: the rotation matrix of the camera is orthonormal: R times its
\* transpose is the identity and its determinant is 1 or -1.
C4_Orthonormal ==
    LET R == getR(camDirection)
    IN  MatMul(R, Transpose(R)) = Identity3 /\ Abs(Det(R)) = 1

\* project has used the rotation of a camera turned about all three axes
C4_Witness == Projected /\ camDirection = <<90, -90, 180>>

\* C5 as claimed: project on an array that has not exactly 3 columns ends in
\* an error and returns no pixel coordinates.
C5_MalformedFails ==
    (ret.op = "project" /\ Len(arg[1]) # 3) => ret.outcome # "ok"

----------------------------------------------------------------------------
(* CamEnv.invproject and the inverse-projection grid *)

\* the DEM file of the camera: NCells cells <<X, Y, Z>>, flattened row by row
DemCell(k) == <<1 + ((k - 1) % 2), ((k - 1) \div 2) - 1, -((k - 1) % 3)>>

DemFile == [k \in 1..NCells |-> DemCell(k)]

\* CamEnv.getDEM: the DEM is loaded on first use
getDEM(dem) == IF dem = <<>> THEN DemFile ELSE dem

\* the results voxelviewshed may give: one flag per cell
Viewsheds == [1..NCells -> BOOLEAN]

\* a[mask] for a boolean mask, as numpy selects: the rows whose flag is set,
\* in their order
RECURSIVE Masked(_, _)
Masked(a, mask) ==
    IF a = <<>> THEN <<>>
    ELSE (IF Head(mask) THEN <<Head(a)>> ELSE <<>>) \o Masked(Tail(a), Tail(mask))

\* VisibleCells without the viewshed
VisibleCells_all(cells, vis) == cells

\* XYZ = column_stack([X[visible], Y[visible], Z[visible]])
VisibleCells(cells, vis) == Masked(cells, vis)

\* SnapToFrame without the in-frame selection
SnapToFrame_all(uvxyz, inframe) == uvxyz

\* uv0 = uv0[inframe, :]
SnapToFrame(uvxyz, inframe) == Masked(uvxyz, inframe)

\* uv0 = column_stack([uv0, XYZ])
StackUvXyz(pr, XYZ) ==
    [i \in 1..Len(XYZ) |->
        <<pr.uv[i][1], pr.uv[i][2], XYZ[i][1], XYZ[i][2], XYZ[i][3]>>]

\* the list [X, Y, Z, uv0] taken from the columns of the snapped array
GridColumns(uv0) ==
    << [i \in 1..Len(uv0) |-> uv0[i][3]],
       [i \in 1..Len(uv0) |-> uv0[i][4]],
       [i \in 1..Len(uv0) |-> uv0[i][5]],
       [i \in 1..Len(uv0) |-> <<uv0[i][1], uv0[i][2]>>] >>

\* the grid of the visible cells XYZ and their projection pr
SnapGrid(XYZ, pr) == GridColumns(SnapToFrame(StackUvXyz(pr, XYZ), pr.inframe))

\* the grid of the visible cells XYZ
GridOfCells(XYZ, loc, dir, f, c, ims) ==
    SnapGrid(XYZ, project(XYZ, loc, dir, f, c, ims))

\* the value _setInvProjVars stores in self._invProjVars
setInvProjVars(dem, vis, loc, dir, f, c, ims) ==
    GridOfCells(VisibleCells(dem, vis), loc, dir, f, c, ims)

\* NeedsBuild that never takes the stored grid
NeedsBuild_always(ipv) == TRUE

\* if self._invProjVars==None
NeedsBuild(ipv) == ipv = <<>>

\* the rows scipy's griddata may return for one query pixel: not-a-number
\* outside the convex hull of uv0, else a value between the grid's
NaNRow == <<NaN, NaN, NaN>>

griddata(ipv, q) ==
    {NaNRow} \cup {<<F(ipv[1][j]), F(ipv[2][j]), F(ipv[3][j])>> : j \in 1..Len(ipv[4])}

\* the pixel arrays passed to invproject
Queries == { << <<F(2), F(1)>> >>, << <<F(0), F(0)>> >> }

\* the interpolation of invproject on the grid ipv, and its return
Interpolate(ipv, uv) ==
    IF Len(ipv[4]) < 3
    THEN ret' = [op |-> "invproject", outcome |-> "QhullError"]
    ELSE \E row \in griddata(ipv, uv[1]) :
            ret' = [op |-> "invproject", outcome |-> "ok", xyz |-> <<row>>]

\* invproject on a camera that has no grid: _setInvProjVars runs first
InvProjectBuild(uv, vis, dem, ipv) ==
    /\ DEM' = dem
    /\ visible' = vis
    /\ invProjVars' = ipv
    /\ nBuild' = nBuild + 1
    /\ attrs' = attrs \cup {"_visible"}
    /\ Interpolate(ipv, uv)

\* invproject on a camera that has its grid
InvProjectStored(uv) ==
    /\ UNCHANGED <<DEM, visible, invProjVars, nBuild, attrs>>
    /\ Interpolate(invProjVars, uv)

\* a call of invproject on the pixel array uv; vis is what voxelviewshed
\* gives if it is run
invproject(uv, vis) ==
    IF NeedsBuild(invProjVars)
    THEN InvProjectBuild(uv, vis, getDEM(DEM),
                         setInvProjVars(getDEM(DEM), vis, camloc, camDirection,
                                        focLen, camCen, refImage))
    ELSE InvProjectStored(uv)

InvProject ==
    /\ nCalls < MaxCalls
    /\ {"_invProjVars", "_DEM"} \subseteq attrs
    /\ \E uv \in Queries, vis \in Viewsheds :
          /\ arg' = uv
          /\ invproject(uv, vis)
    /\ nCalls' = nCalls + 1
    /\ UNCHANGED <<intrMat, tanCorr, radCorr, focLen, camCen, intrMatCV2, poseVars,
                   seqVars>>

InitInv == Constructed /\ arg = <<>>

NextInv == InvProject

SpecInv == InitInv /\ [][NextInv]_vars

\* C6: the grid is built exactly once, by the first call of invproject: after
\* every step on a camera that has been asked there has been one build, and a
\* grid once stored is never replaced.
C6_BuiltOnce ==
    [][ /\ nBuild' = (IF nCalls' = 0 THEN 0 ELSE 1)
        /\ (nCalls' = 0) = (invProjVars' = <<>>)
        /\ invProjVars # <<>> => invProjVars' = invProjVars ]_vars

\* invproject has been called MaxCalls times on a camera whose grid is not
\* empty
C6_Witness == nCalls = MaxCalls /\ nBuild = 1 /\ Len(invProjVars[4]) > 0

\* C7: the four arrays of the grid have the same length, and row i of them is
\* one DEM cell that the viewshed marks visible, with its pixel, which is in
\* frame: depth > 0 and u, v within the image, bounds included.
C7_GridRows ==
    invProjVars # <<>> =>
        LET X == invProjVars[1]  Y == invProjVars[2]
            Z == invProjVars[3]  uv0 == invProjVars[4]
        IN  /\ Len(X) = Len(uv0) /\ Len(Y) = Len(uv0) /\ Len(Z) = Len(uv0)
            /\ \A i \in 1..Len(uv0) :
                 \E k \in 1..Len(DEM) :
                    /\ DEM[k] = <<X[i], Y[i], Z[i]>>
                    /\ visible[k]
                    /\ LET t == [n \in 1..3 |-> DEM[k][n] - camloc[n]]
                           r == projectRow(t, camDirection, focLen, camCen, refImage)
                       IN  /\ r.uv = uv0[i]
                           /\ r.depth > 0
                           /\ InRange(uv0[i][1], refImage[2])
                           /\ InRange(uv0[i][2], refImage[1])

\* a grid that holds some of the DEM's cells and not all of them, for a
\* viewshed that hides a cell and a frame that cuts one off
C7_Witness ==
    /\ invProjVars # <<>>
    /\ Len(invProjVars[4]) > 0
    /\ \E k \in 1..Len(DEM) : ~visible[k]
    /\ Len(invProjVars[4]) < Cardinality({k \in 1..Len(DEM) : visible[k]})

----------------------------------------------------------------------------
(* CamCalib.__init__ and CamEnv.__init__ *)

\* An intrinsic matrix in PyTrx layout with focal length fx
IntrOf(fx) == << <<F(fx), F(0), F(0)>>, <<F(0), F(1), F(0)>>, <<F(2), F(1), F(1)>> >>

\* calibration data [intrinsic matrix, tangential, radial] with nt and nr
\* coefficients, all different and none zero
CalibData(fx, nt, nr, b) ==
    [intr |-> IntrOf(fx),
     tan  |-> [i \in 1..nt |-> F(b + 10 * i)],
     rad  |-> [i \in 1..nr |-> F(b + i)]]

CalibDatas ==
    {CalibData(fx, nt, nr, b) : fx \in {0, 1}, nt \in 0..MaxTan, nr \in 0..MaxRad,
                                b \in {0, 1}}

NoData == [intr |-> <<>>, tan |-> <<>>, rad |-> <<>>]

\* what calibrateImages returns: tan = dist[2:4] and
\* rad = [dist[0], dist[1], dist[4], 0, 0, 0]
ImageCalibDatas ==
    {[intr |-> IntrOf(fx), tan |-> <<F(b + 10), F(b + 20)>>,
      rad |-> <<F(b + 1), F(b + 2), F(b + 3), F(0), F(0), F(0)>>] :
        fx \in {0, 1}, b \in {0, 1}}

\* a calibration file name (isStr) that can be read or not, or something
\* that is no string
StrItems ==
    {[isStr |-> TRUE, readable |-> TRUE, data |-> d] : d \in CalibDatas}
    \cup {[isStr |-> TRUE, readable |-> FALSE, data |-> NoData]}

NonStrItem == [isStr |-> FALSE, readable |-> FALSE, data |-> NoData]

\* the arguments CamCalib is made from: one file, a list of .txt files (its
\* first entry a file name), a list naming calibration images (which
\* calibrateImages can calibrate from, or not), a raw tuple, anything else
CalibArgs ==
    {[kind |-> "file", items |-> <<i>>] : i \in StrItems}
    \cup {[kind |-> "files", items |-> <<i>>] : i \in StrItems}
    \cup {[kind |-> "files", items |-> <<i, j>>] :
             i \in StrItems, j \in StrItems \cup {NonStrItem}}
    \cup {[kind |-> "images",
           items |-> <<[isStr |-> TRUE, readable |-> TRUE, data |-> d]>>] :
             d \in ImageCalibDatas}
    \cup {[kind |-> "images",
           items |-> <<[isStr |-> TRUE, readable |-> FALSE, data |-> NoData]>>]}
    \cup {[kind |-> "tuple",
           items |-> <<[isStr |-> FALSE, readable |-> TRUE, data |-> d]>>] :
             d \in CalibDatas}
    \cup {[kind |-> "other", items |-> <<>>]}

\* Pad that stores the coefficients as they are given
Pad_asGiven(a, n) == a

\* np.zeros(n) with a written over its first a.size entries
Pad(a, n) == [i \in 1..n |-> IF i <= Len(a) THEN a[i] ELSE F(0)]

\* CamCalib.checkMatrix; item.readable tells whether matrix is not None
checkMatrix(item) ==
    IF ~item.readable THEN [outcome |-> "None"]
    ELSE IF Len(item.data.tan) > 2 \/ Len(item.data.rad) > 6
         THEN [outcome |-> "ValueError"]
         ELSE [outcome |-> "ok", intr |-> item.data.intr,
               tan |-> Pad(item.data.tan, 2), rad |-> Pad(item.data.rad, 6)]

RECURSIVE SumF(_)
SumF(a) == IF a = <<>> THEN F(0) ELSE FAdd(Head(a), SumF(Tail(a)))

\* sum(a)/len(a) for a list of floats
MeanF(a) == FMul(SumF(a), Frac(1, Len(a)))

\* sum(vs)/len(vs) for a list of arrays of n floats
MeanVec(vs, n) == [i \in 1..n |-> MeanF([k \in 1..Len(vs) |-> vs[k][i]])]

MeanMat(ms) ==
    [i \in 1..3 |-> [j \in 1..3 |-> MeanF([k \in 1..Len(ms) |-> ms[k][i][j]])]]

\* the calibration attributes an object has once the matrix and the
\* coefficients are stored
StoredAttrs == {"_intrMat", "_tanCorr", "_radCorr", "_calibErr"}

Unset == [intr |-> <<>>, tan |-> <<>>, rad |-> <<>>]

\* outcomes of the body of CamCalib.__init__: an exception, a failure (the
\* message is printed and __init__ returns), or the stored calibration
Raised(exc) == [raised |-> exc, failed |-> FALSE, set |-> {}, cal |-> Unset]

Failed(set, cal) == [raised |-> "", failed |-> TRUE, set |-> set, cal |-> cal]

Stored(failed, cal) ==
    [raised |-> "", failed |-> failed, set |-> StoredAttrs, cal |-> cal]

\* the branches that store the result of one checkMatrix
StoreChecked(cm) ==
    CASE cm.outcome = "ValueError" -> Raised("ValueError")
      [] cm.outcome = "None"       -> Failed({}, Unset)
      [] OTHER -> Stored(FALSE, [intr |-> cm.intr, tan |-> cm.tan, rad |-> cm.rad])

\* the raw-tuple branch: checkMatrix is given a list, never None
StoreTuple(cm) ==
    CASE cm.outcome = "ValueError" -> Raised("ValueError")
      [] OTHER -> Stored(FALSE, [intr |-> cm.intr, tan |-> cm.tan, rad |-> cm.rad])

\* the averages stored after the loop over the files
StoreMeans(acc, failed) ==
    IF acc = <<>> THEN Raised("ZeroDivisionError")
    ELSE Stored(failed,
                [intr |-> MeanMat([k \in 1..Len(acc) |-> acc[k].intr]),
                 tan  |-> MeanVec([k \in 1..Len(acc) |-> acc[k].tan], 2),
                 rad  |-> MeanVec([k \in 1..Len(acc) |-> acc[k].rad], 6)])

\* the loop over the files of a list, acc the calibrations read so far
RECURSIVE FilesLoop(_, _, _)
FilesStep(cm, rest, acc, failed) ==
    CASE cm.outcome = "ValueError" -> Raised("ValueError")
      [] cm.outcome = "None"       -> StoreMeans(acc, TRUE)
      [] OTHER                     -> FilesLoop(rest, Append(acc, cm), failed)

FilesLoop(items, acc, failed) ==
    IF items = <<>> THEN StoreMeans(acc, failed)
    ELSE IF Head(items).isStr
         THEN FilesStep(checkMatrix(Head(items)), Tail(items), acc, failed)
         ELSE FilesLoop(Tail(items), acc, TRUE)

\* the image-set branch: calibrateImages raises when it cannot calibrate
StoreImages(item) ==
    IF ~item.readable THEN Raised("cv2.error") ELSE StoreChecked(checkMatrix(item))

\* the dispatch of CamCalib.__init__ on the type of its argument
CalibBody(args) ==
    CASE args.kind = "file"   -> StoreChecked(checkMatrix(args.items[1]))
      [] args.kind = "files"  -> FilesLoop(args.items, <<>>, FALSE)
      [] args.kind = "images" -> StoreImages(args.items[1])
      [] args.kind = "tuple"  -> StoreTuple(checkMatrix(args.items[1]))
      [] OTHER                -> Failed({}, Unset)

\* the end of CamCalib.__init__: a failure returns before the focal length
\* and the camera centre are set
CalibFinish(b) ==
    IF b.raised # "" THEN [raised |-> b.raised, failed |-> FALSE, set |-> {}]
    ELSE IF b.failed
         THEN [raised |-> "", failed |-> TRUE, set |-> b.set,
               intrMat |-> b.cal.intr, tanCorr |-> b.cal.tan, radCorr |-> b.cal.rad,
               focLen |-> <<>>, camCen |-> <<>>]
         ELSE [raised |-> "", failed |-> FALSE,
               set |-> b.set \cup {"_focLen", "_camCen", "_intrMatCV2"},
               intrMat |-> b.cal.intr, tanCorr |-> b.cal.tan, radCorr |-> b.cal.rad,
               focLen |-> <<b.cal.intr[1][1], b.cal.intr[2][2]>>,
               camCen |-> <<b.cal.intr[3][1], b.cal.intr[3][2]>>]

\* CamCalib.__init__(args)
CalibInit(args) == CalibFinish(CalibBody(args))

\* CamEnv.__init__ given what CamCalib.__init__ did: an exception leaves no
\* object; otherwise the environment attributes are set whether the
\* calibration failed or not
EnvInit(c) ==
    IF c.raised # ""
    THEN /\ ret' = [op |-> "construct", outcome |-> c.raised]
         /\ UNCHANGED calibVars
    ELSE /\ ret' = [op |-> "construct",
                    outcome |-> IF c.failed THEN "failed" ELSE "ok"]
         /\ attrs' = EnvAttrs \cup c.set
         /\ intrMat' = c.intrMat
         /\ tanCorr' = c.tanCorr
         /\ radCorr' = c.radCorr
         /\ focLen' = c.focLen
         /\ camCen' = c.camCen
         /\ intrMatCV2' = <<>>

\* the construction of the camera from the calibration calibPath
Construct ==
    /\ ret = NoCall
    /\ attrs = {}
    /\ EnvInit(CalibInit(calibPath))
    /\ UNCHANGED <<poseVars, invVars, seqVars, arg>>

\* the camera object exists: its constructor has returned
Exists == "_camloc" \in attrs

\* a call of getCamMatrix on the object the constructor returned
GetCamMatrix ==
    /\ Exists
    /\ ret.op = "construct"
    /\ ret' = IF "_intrMat" \in attrs
              THEN [op |-> "getCamMatrix", outcome |-> "ok", value |-> intrMat]
              ELSE [op |-> "getCamMatrix", outcome |-> "AttributeError"]
    /\ UNCHANGED <<calibVars, poseVars, invVars, seqVars, arg>>

\* a call of project, on a point ahead of the camera, on the object the
\* constructor returned
ProbeProject ==
    /\ Exists
    /\ ret.op = "construct"
    /\ arg' = << <<1, 0, 0>> >>
    /\ ret' = IF {"_focLen", "_camCen"} \subseteq attrs
              THEN project(arg', camloc, camDirection, focLen, camCen, refImage)
              ELSE [op |-> "project", outcome |-> "AttributeError"]
    /\ UNCHANGED <<calibVars, poseVars, invVars, seqVars>>

InitCalib ==
    /\ attrs = {}
    /\ intrMat = <<>> /\ tanCorr = <<>> /\ radCorr = <<>>
    /\ focLen = <<>> /\ camCen = <<>>
    /\ intrMatCV2 = <<>>
    /\ camloc = <<0, 0, 0>>
    /\ camDirection = <<0, 0, 0>>
    /\ refImage = RefImageSize
    /\ calibPath \in CalibArgs
    /\ DEM = <<>> /\ invProjVars = <<>> /\ visible = <<>>
    /\ arg = <<>>
    /\ ret = NoCall
    /\ nBuild = 0 /\ nCalls = 0
    /\ SeqIdle

NextCalib == Construct \/ GetCamMatrix \/ ProbeProject

SpecCalib == InitCalib /\ [][NextCalib]_vars

----------------------------------------------------------------------------
(* Calibration: claims C8 and C9 *)

\* the constructor has accepted the calibration
Accepted == Exists /\ "_focLen" \in attrs

\* entry i of a supplied coefficient list, 0 past its end
SuppliedAt(coeffs, i) == IF i <= Len(coeffs) THEN coeffs[i] ELSE F(0)

\* entry i of the coefficients supplied by the sources of the calibration:
\* the entry itself for one source, the mean of the entries for several files
SuppliedRad(i) ==
    MeanF([k \in 1..Len(calibPath.items) |-> SuppliedAt(calibPath.items[k].data.rad, i)])

SuppliedTan(i) ==
    MeanF([k \in 1..Len(calibPath.items) |-> SuppliedAt(calibPath.items[k].data.tan, i)])

\* C8: an accepted calibration stores 6 radial and 2 tangential coefficients:
\* the supplied ones first, in order (averaged entry by entry over the files
\* of a list), and zeros after them.
C8_PaddedCoeffs ==
    Accepted =>
        /\ Len(radCorr) = 6 /\ \A i \in 1..6 : radCorr[i] = SuppliedRad(i)
        /\ Len(tanCorr) = 2 /\ \A i \in 1..2 : tanCorr[i] = SuppliedTan(i)

\* a list of two files, of 2 and of 6 radial coefficients, has been accepted
C8_Witness ==
    /\ Accepted
    /\ calibPath.kind = "files"
    /\ Len(calibPath.items) = 2
    /\ Len(calibPath.items[1].data.rad) = 2
    /\ Len(calibPath.items[2].data.rad) = 6
    /\ radCorr[1] = Frac(3, 2)
    /\ radCorr[6] = Frac(7, 2)

\* the calibration input is malformed: of an unsupported type, unreadable,
\* with too many distortion coefficients, or with a zero focal length
Malformed(args) ==
    \/ args.kind = "other"
    \/ \E k \in 1..Len(args.items) :
          \/ args.kind = "files" /\ ~args.items[k].isStr
          \/ ~args.items[k].readable
          \/ Len(args.items[k].data.rad) > 6
          \/ Len(args.items[k].data.tan) > 2
          \/ args.items[k].data.intr[1][1] = F(0)

\* C9 as claimed: the construction from a malformed calibration does not
\* succeed, and no call of getCamMatrix or project on its result returns.
C9_MalformedIsFatal ==
    Malformed(calibPath) =>
        /\ ret.op = "construct" => ret.outcome # "ok"
        /\ ret.op \in {"getCamMatrix", "project"} => ret.outcome # "ok"

----------------------------------------------------------------------------
(* Velocity.featureTrack *)

\* the square root of the integer n, kept exact
Sqrt(n) == [sqrt |-> n]

\* Sqrt(n) < t for an integer t
RootLess(r, t) == t > 0 /\ r.sqrt < t * t

\* RootLess that lets the threshold itself pass
RootLess_orEqual(r, t) == t >= 0 /\ r.sqrt <= t * t

\* The Euclidean pixel distance between a and b
PixelDist(a, b) ==
    Sqrt((a[1] - b[1]) * (a[1] - b[1]) + (a[2] - b[2]) * (a[2] - b[2]))

\* good = dist < back_thresh
Good_orEqual(dist, back_thresh) ==
    [i \in 1..Len(dist) |-> RootLess_orEqual(dist[i], back_thresh)]

Good(dist, back_thresh) == [i \in 1..Len(dist) |-> RootLess(dist[i], back_thresh)]

\* the return of featureTrack for the points left by the filter
TrackReturn(p0, p1, p0r, error, min_features) ==
    IF Len(p0) < min_features
    THEN [op |-> "featureTrack", outcome |-> "None"]
    ELSE [op |-> "featureTrack", outcome |-> "ok",
          p0 |-> p0, p1 |-> p1, p0r |-> p0r, error |-> error]

\* the filter of featureTrack by the flags good
TrackFilter(p0, p1, p0r, dist, good, min_features) ==
    TrackReturn(Masked(p0, good), Masked(p1, good), Masked(p0r, good),
                Masked(dist, good), min_features)

\* featureTrack from the distances dist of the back-tracked points
TrackFrom(p0, p1, p0r, dist, back_thresh, min_features) ==
    TrackFilter(p0, p1, p0r, dist, Good(dist, back_thresh), min_features)

\* featureTrack(i0, iN, p0, winsize, back_thresh, min_features), where p1
\* and p0r are what calcOpticalFlowPyrLK finds forwards and backwards
featureTrack(p0, p1, p0r, back_thresh, min_features) ==
    TrackFrom(p0, p1, p0r, [i \in 1..Len(p0) |-> PixelDist(p0[i], p0r[i])],
              back_thresh, min_features)

\* a seed, the point it is tracked to and the point that is tracked back to
Seeds == {<<0, 0>>, <<1, 1>>}

Forwards == {<<3, 0>>, <<3, 3>>}

Backs(p) == {<<p[1], p[2]>>, <<p[1] + 1, p[2]>>, <<p[1] + 1, p[2] + 1>>,
             <<p[1] + 2, p[2]>>}

Tracks == {[p0 |-> a, p1 |-> b, p0r |-> c] : a \in Seeds, b \in Forwards,
                                             c \in UNION {Backs(q) : q \in Seeds}}

\* the inputs of featureTrack: the seeds with what the optical flow gives
\* for them on the two images, the threshold and the least number of features
TrackInputs ==
    {[pts |-> t, back_thresh |-> b, min_features |-> m] :
        t \in UNION {[1..n -> Tracks] : n \in 0..MaxSeeds},
        b \in 0..2, m \in 0..2}

\* a call of featureTrack on the inputs arg
FeatureTrack ==
    /\ ret = NoCall
    /\ arg \in TrackInputs
    /\ ret' = featureTrack([i \in 1..Len(arg.pts) |-> arg.pts[i].p0],
                           [i \in 1..Len(arg.pts) |-> arg.pts[i].p1],
                           [i \in 1..Len(arg.pts) |-> arg.pts[i].p0r],
                           arg.back_thresh, arg.min_features)
    /\ UNCHANGED <<calibVars, poseVars, invVars, seqVars, arg>>

InitTrack == Constructed /\ camloc = <<0, 0, 0>> /\ camDirection = <<0, 0, 0>>
             /\ arg \in TrackInputs

NextTrack == FeatureTrack

SpecTrack == InitTrack /\ [][NextTrack]_vars

----------------------------------------------------------------------------
(* Tracking: claim C10 *)

Tracked == ret.op = "featureTrack" /\ ret.outcome = "ok"

\* the square of the distance between the seed and the back-tracked point of
\* the input point i
Residual2(i) ==
    LET a == arg.pts[i].p0  b == arg.pts[i].p0r
    IN  (a[1] - b[1]) * (a[1] - b[1]) + (a[2] - b[2]) * (a[2] - b[2])

\* the input points whose residual is below the threshold, in their order
Survivors ==
    SelectSeq([i \in 1..Len(arg.pts) |-> i],
              LAMBDA i : Residual2(i) < arg.back_thresh * arg.back_thresh)

----------------------------------------------------------------------------
(* Velocity.seedCorners and Velocity.templateMatch *)

\* Python's None where an array of points may stand in its place: kept apart
\* from every such array, whose rows have two columns
None == << <<>> >>

\* what cv2.goodFeaturesToTrack gives: None when it finds no corner, else the
\* array of the corners found
Corners == {None} \cup UNION {[1..n -> Seeds] : n \in 1..MaxSeeds}

\* seedCorners(im, mask, maxpoints, quality, mindist, min_features), where p0
\* is what goodFeaturesToTrack gives; p0.shape[0] needs an array
seedCorners(p0, min_features) ==
    IF p0 = None
    THEN [op |-> "seedCorners", outcome |-> "AttributeError"]
    ELSE IF Len(p0) < min_features
         THEN [op |-> "seedCorners", outcome |-> "None"]
         ELSE [op |-> "seedCorners", outcome |-> "ok", p0 |-> p0]

\* subpx = 0.01: the interpolated correlation surface has SubPx positions
\* per pixel
SubPx == 100

\* the six correlation metrics, as the strings templateMatch evaluates
Methods == {"cv2.TM_CCOEFF", "cv2.TM_CCOEFF_NORMED", "cv2.TM_CCORR",
            "cv2.TM_CCORR_NORMED", "cv2.TM_SQDIFF", "cv2.TM_SQDIFF_NORMED"}

\* the default value of method, which is the integer cv2.TM_CCORR_NORMED and
\* no string
DefaultMethod == "3 (int)"

\* eval(method) needs a string
IsStr(method) == method \in Methods

\* the edge of the correlation surface in pixels: one position for every
\* shift of the template inside the search window
SurfaceEdge(templatesize, searchsize) == searchsize - templatesize + 1

\* resz.shape[1] after the interpolation on arange(0, edge, subpx)
UpEdge(templatesize, searchsize) == SurfaceEdge(templatesize, searchsize) * SubPx

\* a surface is the value base everywhere but at the positions <<x, y>> of
\* marks; its value at p
SurfVal(s, p) == IF p \in DOMAIN s.marks THEN s.marks[p] ELSE s.base

\* the position number k of a surface of edge n, row by row
ScanPos(k, n) == <<k % n, k \div n>>

ScanKey(p, n) == p[2] * n + p[1]

\* the first position of the scan that is not marked
FirstUnmarked(s, n) ==
    ScanPos(CHOOSE k \in 0..Cardinality(DOMAIN s.marks) :
               /\ ScanPos(k, n) \notin DOMAIN s.marks
               /\ \A j \in 0..(k - 1) : ScanPos(j, n) \in DOMAIN s.marks, n)

\* the values the surface takes
SurfVals(s) == {s.base} \cup {s.marks[p] : p \in DOMAIN s.marks}

\* the first position of the scan where the surface has the value v
FirstAt(s, n, v) ==
    LET cand == {p \in DOMAIN s.marks : s.marks[p] = v}
                \cup (IF s.base = v THEN {FirstUnmarked(s, n)} ELSE {})
    IN  CHOOSE p \in cand : \A q \in cand : ScanKey(p, n) <= ScanKey(q, n)

MinOf(S) == CHOOSE v \in S : \A w \in S : v <= w

MaxOf(S) == CHOOSE v \in S : \A w \in S : v >= w

\* cv2.minMaxLoc(resz): min_val, max_val, min_loc, max_loc
minMaxLoc(s, n) ==
    [min_val |-> MinOf(SurfVals(s)), max_val |-> MaxOf(SurfVals(s)),
     min_loc |-> FirstAt(s, n, MinOf(SurfVals(s))),
     max_loc |-> FirstAt(s, n, MaxOf(SurfVals(s)))]

\* Location that takes the maximum for every metric
Location_alwaysMax(method, mm) == mm.max_loc

\* the location taken for the metric: the minimum for the two
\* squared-difference metrics, else the maximum
Location(method, mm) ==
    IF method = "cv2.TM_SQDIFF" THEN mm.min_loc
    ELSE IF method = "cv2.TM_SQDIFF_NORMED" THEN mm.min_loc
    ELSE mm.max_loc

\* loc_x = (u - (resz.shape[1]*subpx)/2) + location[0]*subpx, and loc_y with
\* the same resz.shape[1]
TrackedLoc(uv, location, n) ==
    <<Frac(2 * SubPx * uv[1] - n + 2 * location[1], 2 * SubPx),
      Frac(2 * SubPx * uv[2] - n + 2 * location[2], 2 * SubPx)>>

RECURSIVE SumMarks(_, _)
SumMarks(s, P) ==
    IF P = {} THEN 0
    ELSE LET p == CHOOSE q \in P : TRUE IN s.marks[p] + SumMarks(s, P \ {p})

\* np.mean(resz)
MeanSurf(s, n) ==
    Frac(s.base * (n * n - Cardinality(DOMAIN s.marks)) + SumMarks(s, DOMAIN s.marks),
         n * n)

\* the point matched for the seed uv on the interpolated surface s
MatchPoint(uv, s, method, n) == TrackedLoc(uv, Location(method, minMaxLoc(s, n)), n)

\* MatchReturn that gives the seeds as the back-tracked points
MatchReturn_backAsSeeds(uv0, uv1, avercorr, min_features) ==
    IF Len(uv1) < min_features
    THEN [op |-> "templateMatch", outcome |-> "None"]
    ELSE [op |-> "templateMatch", outcome |-> "ok",
          p0 |-> uv0, p1 |-> uv1, p0r |-> uv0, error |-> avercorr]

\* the return of templateMatch for the points matched
MatchReturn(uv0, uv1, avercorr, min_features) ==
    IF Len(uv1) < min_features
    THEN [op |-> "templateMatch", outcome |-> "None"]
    ELSE [op |-> "templateMatch", outcome |-> "ok",
          p0 |-> uv0, p1 |-> uv1, p0r |-> None, error |-> avercorr]

\* the seeds of pts whose match has not failed, in their order
Unfailed(pts) == SelectSeq(pts, LAMBDA p : ~p.raised)

\* MatchLoop that skips a seed whose match has failed: the seed stays in uv0
\* and has no point in uv1
MatchLoop_skipsFailed(pts, method, n, min_features) ==
    MatchReturn([i \in 1..Len(pts) |-> pts[i].uv],
                [i \in 1..Len(Unfailed(pts)) |->
                    MatchPoint(Unfailed(pts)[i].uv, Unfailed(pts)[i].surf, method, n)],
                [i \in 1..Len(Unfailed(pts)) |-> MeanSurf(Unfailed(pts)[i].surf, n)],
                min_features)

\* the loop of templateMatch over the seeds pts, each with what
\* cv2.matchTemplate and the interpolation give for it: a failed match leaves
\* resz = None, and resz.all() needs an array
MatchLoop(pts, method, n, min_features) ==
    IF \E i \in 1..Len(pts) : pts[i].raised
    THEN [op |-> "templateMatch", outcome |-> "AttributeError"]
    ELSE MatchReturn([i \in 1..Len(pts) |-> pts[i].uv],
                     [i \in 1..Len(pts) |-> MatchPoint(pts[i].uv, pts[i].surf, method, n)],
                     [i \in 1..Len(pts) |-> MeanSurf(pts[i].surf, n)],
                     min_features)

\* templateMatch(im0, im1, uv0, templatesize, searchsize, min_features, method)
templateMatch(pts, templatesize, searchsize, min_features, method) ==
    IF pts # <<>> /\ ~IsStr(method)
    THEN [op |-> "templateMatch", outcome |-> "TypeError"]
    ELSE MatchLoop(pts, method, UpEdge(templatesize, searchsize), min_features)

\* the seeds of a grid, away from the border of the image
GridSeeds == {<<10, 10>>, <<20, 10>>}

\* the sets of positions where the surfaces followed differ from their base
MarkSets == {{}, {<<SubPx, SubPx>>}, {<<2 * SubPx, 2 * SubPx>>},
             {<<0, 0>>, <<SubPx + 50, SubPx>>}}

\* the interpolated surfaces followed: base 1, with peaks (2) and pits (0)
Surfaces == {[base |-> 1, marks |-> m] : m \in UNION {[P -> {0, 2}] : P \in MarkSets}}

\* a seed with what the matching gives for it
Matches ==
    {[uv |-> p, raised |-> FALSE, surf |-> s] : p \in GridSeeds, s \in Surfaces}
    \cup {[uv |-> p, raised |-> TRUE, surf |-> [base |-> 1, marks |-> <<>>]] :
            p \in GridSeeds}

\* <<templatesize, searchsize>>: even sizes, whose halves are whole pixels
Sizes == {<<2, 4>>, <<2, 6>>}

\* the numbers of seeds of the calls of templateMatch followed
MatchCounts == {0, 1, 2}

\* the inputs of templateMatch
MatchInputs ==
    {[pts |-> p, sizes |-> z, min_features |-> m, method |-> meth] :
        p \in UNION {[1..n -> Matches] : n \in MatchCounts},
        z \in Sizes, m \in 0..2, meth \in Methods \cup {DefaultMethod}}

\* the inputs of seedCorners
SeedInputs == {[corners |-> c, min_features |-> m] : c \in Corners, m \in 0..3}

\* a call of seedCorners
SeedCorners ==
    /\ ret = NoCall
    /\ "corners" \in DOMAIN arg
    /\ ret' = seedCorners(arg.corners, arg.min_features)
    /\ UNCHANGED <<calibVars, poseVars, invVars, seqVars, arg>>

\* a call of templateMatch
TemplateMatch ==
    /\ ret = NoCall
    /\ "method" \in DOMAIN arg
    /\ ret' = templateMatch(arg.pts, arg.sizes[1], arg.sizes[2], arg.min_features,
                            arg.method)
    /\ UNCHANGED <<calibVars, poseVars, invVars, seqVars, arg>>

\* a call of featureTrack, as in SpecTrack
TrackCall == "back_thresh" \in DOMAIN arg /\ FeatureTrack

InitMatch == Constructed /\ camloc = <<0, 0, 0>> /\ camDirection = <<0, 0, 0>>
             /\ arg \in SeedInputs \cup MatchInputs \cup TrackInputs

NextMatch == SeedCorners \/ TemplateMatch \/ TrackCall

SpecMatch == InitMatch /\ [][NextMatch]_vars

----------------------------------------------------------------------------
(* Seeding, tracking and matching: claims C11 and C12 *)

\* the number of corners goodFeaturesToTrack has found
CornersFound == IF arg.corners = None THEN 0 ELSE Len(arg.corners)

\* the seeds of templateMatch whose match has not failed, in their order
MatchedSeeds == SelectSeq(arg.pts, LAMBDA m : ~m.raised)

\* the outcome is the set of n points if n reaches min_features, and the
\* insufficient-features outcome if it does not
WholeOrNone(n) ==
    IF n < arg.min_features
    THEN ret.outcome = "None"
    ELSE ret.outcome = "ok" /\ Len(ret.p0) = n

\* C11: seedCorners, featureTrack and templateMatch (called with one of its
\* six metrics) return the insufficient-features outcome whenever fewer than
\* min_features points are found or survive, and the whole set of the points
\* found or surviving when there are at least min_features of them.
C11_WholeOrNone ==
    /\ ret.op = "seedCorners" => WholeOrNone(CornersFound)
    /\ ret.op = "featureTrack" => WholeOrNone(Len(Survivors))
    /\ (ret.op = "templateMatch" /\ arg.method \in Methods)
          => WholeOrNone(Len(MatchedSeeds))

Matched == ret.op = "templateMatch" /\ ret.outcome = "ok"

\* the arrays a, b, c and d have the same length
SameLength(a, b, c, d) == Len(a) = Len(b) /\ Len(b) = Len(c) /\ Len(c) = Len(d)

NearSeed(q, p) ==
    LET h == Frac(SurfaceEdge(arg.sizes[1], arg.sizes[2]), 2)
    IN  /\ FLeq(FAdd(F(p[1]), FMul(F(-1), h)), q[1]) /\ FLeq(q[1], FAdd(F(p[1]), h))
        /\ FLeq(FAdd(F(p[2]), FMul(F(-1), h)), q[2]) /\ FLeq(q[2], FAdd(F(p[2]), h))

----------------------------------------------------------------------------
(* Velocity.apply_persp_homographyPts *)

\* a point of integer pixels as a pair of floats
ToF(p) == <<F(p[1]), F(p[2])>>

\* 1./a
FInv(a) == Frac(a[2], a[1])

\* a - b
FSub(a, b) == FAdd(a, FMul(F(-1), b))

\* no homography matrix: None
NoMatrix == <<>>

\* the rows, or columns, of a 3 x 3 matrix other than i
Others(i) == CASE i = 1 -> <<2, 3>> [] i = 2 -> <<1, 3>> [] OTHER -> <<1, 2>>

Minor(H, r, c) == H[r[1]][c[1]] * H[r[2]][c[2]] - H[r[1]][c[2]] * H[r[2]][c[1]]

Cofactor(H, i, j) ==
    (IF (i + j) % 2 = 0 THEN 1 ELSE -1) * Minor(H, Others(i), Others(j))

\* an integer matrix as a matrix of floats
FMat(H) == [i \in 1..3 |-> [j \in 1..3 |-> F(H[i][j])]]

\* cv2.invert(homog)[1] for an integer matrix: its inverse, and for a
\* singular matrix the matrix of zeros
invert(H) ==
    IF Det(H) = 0 THEN [i \in 1..3 |-> [j \in 1..3 |-> F(0)]]
    ELSE [i \in 1..3 |-> [j \in 1..3 |-> Frac(Cofactor(H, j, i), Det(H))]]

\* homog[k][0]*x + homog[k][1]*y + homog[k][2] for row k of the float matrix M
HRow(M, k, p) == FAdd(FAdd(FMul(M[k][1], p[1]), FMul(M[k][2], p[2])), M[k][3])

\* HPoint that leaves out the division
HPoint_affine(M, p) == <<HRow(M, 1, p), HRow(M, 2, p)>>

\* one point through the float matrix M
HPoint(M, p) ==
    <<FMul(HRow(M, 1, p), FInv(HRow(M, 3, p))),
      FMul(HRow(M, 2, p), FInv(HRow(M, 3, p)))>>

\* the points rows through the float matrix M
HPoints(M, rows) == [i \in 1..Len(rows) |-> HPoint(M, rows[i])]

\* None where a point set (an array or a list of points) may stand
NoPoints == [kind |-> "NoneType", rows |-> <<>>]

\* the outcome of a call that returns v
Returned(v) == [outcome |-> "ok", value |-> v]

\* the array branch for the matrix homog, not to be inverted
HArray(rows, homog) ==
    IF homog = NoMatrix
    THEN (IF rows = <<>> THEN Returned([kind |-> "ndarray", rows |-> <<>>])
          ELSE [outcome |-> "TypeError"])
    ELSE Returned([kind |-> "ndarray", rows |-> HPoints(FMat(homog), rows)])

\* the array branch for the matrix homog, to be inverted first
HArrayInverse(rows, homog) ==
    IF homog = NoMatrix THEN [outcome |-> "cv2.error"]
    ELSE Returned([kind |-> "ndarray", rows |-> HPoints(invert(homog), rows)])

\* the list branch: the points are computed and nothing is returned
HList(rows, homog, inverse) ==
    IF homog = NoMatrix
    THEN (IF inverse THEN [outcome |-> "cv2.error"]
          ELSE IF rows = <<>> THEN Returned(NoPoints)
          ELSE [outcome |-> "TypeError"])
    ELSE Returned(NoPoints)

\* apply_persp_homographyPts(pts, homog, inverse); pts is an array or a list
\* of points, or something else (None)
apply_persp_homographyPts(pts, homog, inverse) ==
    IF pts.kind \notin {"ndarray", "list"} THEN Returned(NoPoints)
    ELSE IF pts.kind = "ndarray"
    THEN (IF inverse THEN HArrayInverse(pts.rows, homog) ELSE HArray(pts.rows, homog))
    ELSE HList(pts.rows, homog, inverse)

\* the homography matrices followed: the identity, a shift, a stretch, a
\* projective matrix, a singular matrix
Homogs ==
    { << <<1, 0, 0>>, <<0, 1, 0>>, <<0, 0, 1>> >>,
      << <<1, 0, 1>>, <<0, 1, -1>>, <<0, 0, 1>> >>,
      << <<2, 0, 0>>, <<0, 2, 0>>, <<0, 0, 1>> >>,
      << <<1, 0, 0>>, <<0, 1, 0>>, <<1, 0, 1>> >>,
      << <<1, 1, 0>>, <<1, 1, 0>>, <<0, 0, 1>> >> }

\* the point sets given to apply_persp_homographyPts
PointSets ==
    {[kind |-> k, rows |-> r] :
        k \in {"ndarray", "list"},
        r \in UNION {[1..n -> {ToF(<<x, y>>) : x, y \in -1..1}] : n \in 0..MaxSeeds}}

HomogInputs == {[hpts |-> p, homog |-> h] : p \in PointSets, h \in Homogs \cup {NoMatrix}}

\* the points are put through homog, and what comes back through its inverse
ApplyThenInvert(pts, homog, there) ==
    [op |-> "apply_persp_homographyPts", there |-> there,
     back |-> IF there.outcome = "ok"
              THEN apply_persp_homographyPts(there.value, homog, TRUE)
              ELSE there]

\* a call of apply_persp_homographyPts, and one with inverse=True on what it
\* returns
ApplyHomography ==
    /\ ret = NoCall
    /\ "homog" \in DOMAIN arg
    /\ ret' = ApplyThenInvert(arg.hpts, arg.homog,
                              apply_persp_homographyPts(arg.hpts, arg.homog, FALSE))
    /\ UNCHANGED <<calibVars, poseVars, invVars, seqVars, arg>>

InitHomog == Constructed /\ camloc = <<0, 0, 0>> /\ camDirection = <<0, 0, 0>>
             /\ arg \in HomogInputs

NextHomog == ApplyHomography

SpecHomog == InitHomog /\ [][NextHomog]_vars

----------------------------------------------------------------------------
(* Velocity.calcSparseVelocity and Velocity.calcDenseVelocity *)

\* displacement_tolerance_rel = 2.0
DisplacementToleranceRel == 2

\* a > b; every comparison with nan is false
FGt(a, b) == ~IsNaN(a) /\ ~IsNaN(b) /\ ~FLeq(a, b)

\* (b - a) squared and summed over both coordinates
Dist2(a, b) ==
    FAdd(FMul(FSub(b[1], a[1]), FSub(b[1], a[1])),
         FMul(FSub(b[2], a[2]), FSub(b[2], a[2])))

\* cv2.undistortPoints for the calibration calib: a stretch about the origin
\* by the factor calib[1]
Undistort(p, calib) == <<FMul(F(calib[1]), p[1]), FMul(F(calib[1]), p[2])>>

\* the points pts corrected for distortion if a calibration is given (calib
\* is <<>> for None)
Corrected(pts, calib) ==
    IF calib = <<>> THEN pts ELSE [i \in 1..Len(pts) |-> Undistort(pts[i], calib)]

\* metres on the ground per pixel of the camera followed
GroundScale == 2

\* projectUV(uv, invprojvars) for a camera that looks straight down on ground
\* that rises with X (its height is the pixel column): not-a-number pixels
\* have not-a-number positions
projectUV(uv) ==
    [i \in 1..Len(uv) |->
        <<FMul(F(GroundScale), uv[i][1]), FMul(F(GroundScale), uv[i][2]), uv[i][1]>>]

\* the pairs zip(a, b) gives: as many as the shorter of a and b has
ZipLen(a, b) == IF Len(a) <= Len(b) THEN Len(a) ELSE Len(b)

\* the distances, pair by pair of zip(a, b), over the first two columns
Dists(a, b) == [i \in 1..ZipLen(a, b) |-> Sqrt(Dist2(a[i], b[i]))]

\* Moved that lets a displacement equal to the tolerance pass
Moved_orEqual(d2, hpts) ==
    FGeq(d2, F(DisplacementToleranceRel * DisplacementToleranceRel
               * (hpts[1] * hpts[1] + hpts[2] * hpts[2])))

\* disp_dist > sderr * displacement_tolerance_rel, for the square d2 of
\* disp_dist and hpts = <<xsd, ysd>>
Moved(d2, hpts) ==
    FGt(d2, F(DisplacementToleranceRel * DisplacementToleranceRel
              * (hpts[1] * hpts[1] + hpts[2] * hpts[2])))

\* good = disp_dist > sderr * displacement_tolerance_rel
GoodMoved(src, dsth, hpts) ==
    [i \in 1..Len(src) |-> Moved(Dist2(src[i], dsth[i]), hpts)]

\* the world positions and velocities of the result (None without
\* invprojvars); back is None if there are no back-tracked points
WorldPart(src, dsth, back, inv, withErr) ==
    IF ~inv
    THEN [xyzvel |-> None, xyzs |-> None, xyzd |-> None, xyzerr |-> None]
    ELSE [xyzvel |-> Dists(projectUV(src), projectUV(dsth)),
          xyzs |-> projectUV(src), xyzd |-> projectUV(dsth),
          xyzerr |-> IF withErr THEN Dists(projectUV(src), projectUV(back))
                     ELSE None]

\* the value returned: [[xyzvel, xyzs, xyzd, xyzerr],
\* [pxvel, src_pts_corr, dst_pts_corr, dst_pts_homog or None, ptserrors]]
VelReturn(op, src, dst, dsth, slot, errs, world) ==
    [op |-> op, outcome |-> "ok", xyz |-> world, pxvel |-> Dists(src, dsth),
     src |-> src, dst |-> dst, homog |-> slot, ptserrors |-> errs]

\* the end of the pair without a homography: dst_pts_homog = dst_pts_corr
VelPlain(op, src, dst, back, errs, inv, withErr) ==
    VelReturn(op, src, dst, dst, None, errs, WorldPart(src, dst, back, inv, withErr))

\* the end of the pair for the points kept by the displacement filter
VelKept(op, src, dst, dsth, back, errs, inv, withErr) ==
    VelReturn(op, src, dst, dsth, dsth, errs, WorldPart(src, dsth, back, inv, withErr))

\* x[good] for the back-tracked points, which may be None
MaskedBack(back, good) == IF back = None THEN None ELSE Masked(back, good)

\* VelFilter that leaves the residuals as they are
VelFilter_errsUnmasked(op, src, dst, dsth, back, errs, good, inv, withErr) ==
    VelKept(op, Masked(src, good), Masked(dst, good), Masked(dsth, good),
            MaskedBack(back, good), errs, inv, withErr)

\* the displacement filter on the corrected destination points dsth
VelFilter(op, src, dst, dsth, back, errs, good, inv, withErr) ==
    VelKept(op, Masked(src, good), Masked(dst, good), Masked(dsth, good),
            MaskedBack(back, good), Masked(errs, good), inv, withErr)

\* "dst_pts_homog[:,0,0]-src_pts_corr[:,0,0]" for arrays of n and of m
\* points: numpy stretches an array of one point and raises a ValueError for
\* any other two lengths that differ
Unbroadcastable(n, m) == n # m /\ n # 1 /\ m # 1

\* the homography branch, from what apply_persp_homographyPts gives (h):
\* hpts[0][2] needs hpts, which is <<>> for None, and the indexing by good needs
\* arrays of the length of good
VelCorrect(op, src, dst, back, errs, h, hpts, inv, withErr) ==
    IF h.outcome # "ok" THEN [op |-> op, outcome |-> h.outcome]
    ELSE IF Unbroadcastable(Len(src), Len(dst)) THEN [op |-> op, outcome |-> "ValueError"]
    ELSE IF hpts = <<>> THEN [op |-> op, outcome |-> "TypeError"]
    ELSE IF Len(src) # Len(dst) THEN [op |-> op, outcome |-> "IndexError"]
    ELSE VelFilter(op, src, dst, h.value.rows, back, errs,
                   GoodMoved(src, h.value.rows, hpts), inv, withErr)

\* the pair from its corrected points on: "if homog is not None"
VelHomog(op, src, dst, back, errs, homog, inv, withErr) ==
    IF ~homog.given THEN VelPlain(op, src, dst, back, errs, inv, withErr)
    ELSE VelCorrect(op, src, dst, back, errs,
                    apply_persp_homographyPts([kind |-> "ndarray", rows |-> dst],
                                              homog.hmatrix, TRUE),
                    homog.hpts, inv, withErr)

\* the columns of the tracks pts
SeedsOf(pts) == [i \in 1..Len(pts) |-> pts[i].p0]

ForwardsOf(pts) == [i \in 1..Len(pts) |-> pts[i].p1]

BacksOf(pts) == [i \in 1..Len(pts) |-> pts[i].p0r]

\* an array of integer pixels as an array of floats
ToFs(a) == [i \in 1..Len(a) |-> ToF(a[i])]

\* what goodFeaturesToTrack gives for the seeds of pts
CornersOf(pts) == IF pts = <<>> THEN None ELSE SeedsOf(pts)

\* calcSparseVelocity from the point set t that featureTrack returns:
\* "points, ptserrors = featureTrack(...)" needs a pair
SparseFrom(t, calib, homog, inv) ==
    IF t.outcome = "None"
    THEN [op |-> "calcSparseVelocity", outcome |-> "TypeError"]
    ELSE VelHomog("calcSparseVelocity", Corrected(ToFs(t.p0), calib),
                  Corrected(ToFs(t.p1), calib), Corrected(ToFs(t.p0r), calib),
                  t.error, homog, inv, TRUE)

\* calcSparseVelocity from what seedCorners returns (s): the seeds go to
\* featureTrack as they are, and calcOpticalFlowPyrLK needs an array
SparseSeeded(s, pts, back_thresh, min_features, calib, homog, inv) ==
    IF s.outcome = "AttributeError"
    THEN [op |-> "calcSparseVelocity", outcome |-> "AttributeError"]
    ELSE IF s.outcome = "None"
    THEN [op |-> "calcSparseVelocity", outcome |-> "cv2.error"]
    ELSE SparseFrom(featureTrack(s.p0, ForwardsOf(pts), BacksOf(pts), back_thresh,
                                 min_features),
                    calib, homog, inv)

\* calcSparseVelocity(img1, img2, mask, calib, homog, invprojvars, winsize,
\* back_thresh, min_features, seedparams); pts is what the images give: the
\* corners found with the points they are tracked to
calcSparseVelocity(pts, back_thresh, min_features, calib, homog, inv) ==
    SparseSeeded(seedCorners(CornersOf(pts), min_features), pts, back_thresh,
                 min_features, calib, homog, inv)

\* "x != None" for an array x of n points: True where numpy compares the
\* array as a whole (scalar) and, where it compares element by element, the
\* truth value of an array, which is False if it is empty and else a
\* ValueError
DenseNumpy(r, n, numpy, calib, homog, inv) ==
    IF numpy = "scalar" THEN r
    ELSE IF n >= 1 /\ calib # <<>>
    THEN [op |-> "calcDenseVelocity", outcome |-> "ValueError"]
    ELSE IF r.outcome # "ok" THEN r
    ELSE IF n >= 1 /\ (homog.given \/ inv)
    THEN [op |-> "calcDenseVelocity", outcome |-> "ValueError"]
    ELSE IF n = 0 /\ inv
    THEN [op |-> "calcDenseVelocity", outcome |-> "TypeError"]
    ELSE r

\* calcDenseVelocity with method 'opticalflow', from the point set t that
\* featureTrack returns
DenseFlowFrom(t, numpy, calib, homog, inv) ==
    IF t.outcome = "None"
    THEN [op |-> "calcDenseVelocity", outcome |-> "TypeError"]
    ELSE DenseNumpy(VelHomog("calcDenseVelocity", Corrected(ToFs(t.p0), calib),
                             Corrected(ToFs(t.p1), calib),
                             Corrected(ToFs(t.p0r), calib), t.error, homog, inv, TRUE),
                    Len(t.p0), numpy, calib, homog, inv)

\* calcDenseVelocity with a correlation metric, from what templateMatch
\* returns (t)
DenseMatchFrom(t, calib, homog, inv) ==
    IF t.outcome = "None" THEN [op |-> "calcDenseVelocity", outcome |-> "None"]
    ELSE IF t.outcome # "ok" THEN [op |-> "calcDenseVelocity", outcome |-> t.outcome]
    ELSE VelHomog("calcDenseVelocity", Corrected(ToFs(t.p0), calib),
                  Corrected(t.p1, calib), None, t.error, homog, inv, FALSE)

\* calcDenseVelocity(im0, im1, griddistance, method, templatesize, searchsize,
\* mask, calib, homog, campars, back_thresh, min_features); pts is what the
\* images give for the seeds of the grid
calcDenseVelocity(pts, method, sizes, back_thresh, min_features, numpy, calib, homog, inv) ==
    IF method = "opticalflow"
    THEN DenseFlowFrom(featureTrack(SeedsOf(pts), ForwardsOf(pts), BacksOf(pts),
                                    back_thresh, min_features),
                       numpy, calib, homog, inv)
    ELSE DenseMatchFrom(templateMatch(pts, sizes[1], sizes[2], min_features, method),
                        calib, homog, inv)

\* the tracks of an image pair followed: a seed, the point it is tracked to
\* (itself, or a point some pixels away) and the point tracked back to (the
\* seed, or the pixel next to it)
VelTracks ==
    {[p0 |-> a, p1 |-> <<a[1] + d, a[2] + d>>, p0r |-> <<a[1] + e, a[2]>>] :
        a \in Seeds, d \in {0, 2}, e \in {0, 1}}

\* the seeds of a grid with the surfaces matched for them
VelMatches ==
    {[uv |-> p, raised |-> FALSE, surf |-> [base |-> 1, marks |-> m]] :
        p \in GridSeeds,
        m \in UNION {[P -> {0, 2}] : P \in {{}, {<<SubPx, SubPx>>}}}}
    \cup {[uv |-> p, raised |-> TRUE, surf |-> [base |-> 1, marks |-> <<>>]] :
            p \in GridSeeds}

\* the numbers of seeds of the image pairs followed
PairCounts == {0, 1, 2}

\* cameraMatrix and distortion coefficients: none (<<>>), or those of a
\* stretch by 2
Calibs == {<<>>, <<2>>}

\* the homog argument: None; [None, None]; or [hmatrix, hpts] with the
\* standard deviations <<xsd, ysd>> of hpts
NoHomog == [given |-> FALSE, hmatrix |-> NoMatrix, hpts |-> <<>>]

NoneNone == [given |-> TRUE, hmatrix |-> NoMatrix, hpts |-> <<>>]

VelHomogs ==
    { << <<1, 0, 0>>, <<0, 1, 0>>, <<0, 0, 1>> >>,
      << <<1, 0, 1>>, <<0, 1, -1>>, <<0, 0, 1>> >>,
      << <<2, 0, 0>>, <<0, 2, 0>>, <<0, 0, 1>> >> }

HomogArgs ==
    {NoHomog, NoneNone}
    \cup {[given |-> TRUE, hmatrix |-> h, hpts |-> sd] :
            h \in VelHomogs, sd \in {<<0, 0>>, <<1, 0>>}}

SparseInputs ==
    {[fn |-> "calcSparseVelocity", pts |-> p, back_thresh |-> b,
      min_features |-> m, calib |-> c, homog |-> h, inv |-> v] :
        p \in UNION {[1..n -> VelTracks] : n \in PairCounts},
        b \in {1, 2}, m \in 0..2, c \in Calibs, h \in HomogArgs, v \in BOOLEAN}

FlowInputs ==
    {[fn |-> "calcDenseVelocity", method |-> "opticalflow", pts |-> p,
      sizes |-> <<2, 4>>, back_thresh |-> 2, min_features |-> m, numpy |-> np,
      calib |-> c, homog |-> h, inv |-> v] :
        p \in UNION {[1..n -> VelTracks] : n \in PairCounts}, m \in 0..2,
        np \in {"scalar", "elementwise"}, c \in Calibs, h \in HomogArgs,
        v \in BOOLEAN}

MatchVelInputs ==
    {[fn |-> "calcDenseVelocity", method |-> meth, pts |-> p,
      sizes |-> <<2, 4>>, back_thresh |-> 2, min_features |-> m, numpy |-> "scalar",
      calib |-> c, homog |-> h, inv |-> v] :
        meth \in {"cv2.TM_CCORR_NORMED", "cv2.TM_SQDIFF"},
        p \in UNION {[1..n -> VelMatches] : n \in PairCounts}, m \in 0..2,
        c \in Calibs, h \in HomogArgs, v \in BOOLEAN}

\* a call of calcSparseVelocity
CalcSparseVelocity ==
    /\ ret = NoCall
    /\ arg.fn = "calcSparseVelocity"
    /\ ret' = calcSparseVelocity(arg.pts, arg.back_thresh, arg.min_features,
                                 arg.calib, arg.homog, arg.inv)
    /\ UNCHANGED <<calibVars, poseVars, invVars, seqVars, arg>>

\* a call of calcDenseVelocity
CalcDenseVelocity ==
    /\ ret = NoCall
    /\ arg.fn = "calcDenseVelocity"
    /\ ret' = calcDenseVelocity(arg.pts, arg.method, arg.sizes, arg.back_thresh,
                                arg.min_features, arg.numpy, arg.calib, arg.homog,
                                arg.inv)
    /\ UNCHANGED <<calibVars, poseVars, invVars, seqVars, arg>>

InitPair == Constructed /\ camloc = <<0, 0, 0>> /\ camDirection = <<0, 0, 0>>
            /\ arg \in SparseInputs \cup FlowInputs \cup MatchVelInputs

NextPair == CalcSparseVelocity \/ CalcDenseVelocity

SpecPair == InitPair /\ [][NextPair]_vars

----------------------------------------------------------------------------
(* Velocity of an image pair: claim C15 *)

\* the call has returned a result for the pair
PairDone ==
    ret.op \in {"calcSparseVelocity", "calcDenseVelocity"} /\ ret.outcome = "ok"

\* the pair is tracked by optical flow, not by template matching
ByFlow == arg.fn = "calcSparseVelocity" \/ arg.method = "opticalflow"

\* the point set the tracking of the pair has returned
PairTracked ==
    IF ByFlow
    THEN featureTrack(SeedsOf(arg.pts), ForwardsOf(arg.pts), BacksOf(arg.pts),
                      arg.back_thresh, arg.min_features)
    ELSE templateMatch(arg.pts, arg.sizes[1], arg.sizes[2], arg.min_features,
                       arg.method)

\* the tracked points of the pair, undistorted if a calibration is given
UndistSrc == Corrected(ToFs(PairTracked.p0), arg.calib)

UndistDst ==
    Corrected(IF ByFlow THEN ToFs(PairTracked.p1) ELSE PairTracked.p1, arg.calib)

UndistBack == Corrected(ToFs(PairTracked.p0r), arg.calib)

\* the destination point i taken back through the homography matrix
CorrDst(i) == HPoint(invert(arg.homog.hmatrix), UndistDst[i])

\* the square of 2.0 x sqrt(xsd^2 + ysd^2)
Tolerance2 ==
    4 * (arg.homog.hpts[1] * arg.homog.hpts[1] + arg.homog.hpts[2] * arg.homog.hpts[2])

\* the tracked points whose corrected destination is farther from their
\* source than the tolerance, in their order
MovedPoints ==
    SelectSeq([i \in 1..Len(UndistSrc) |-> i],
              LAMBDA i : FGt(Dist2(UndistSrc[i], CorrDst(i)), F(Tolerance2)))

\* C15: with a homography model, the result of calcSparseVelocity and of
\* calcDenseVelocity holds exactly the tracked points whose destination,
\* undistorted and taken back through the homography, lies farther than 2.0 x
\* sqrt(xsd^2 + ysd^2) (strictly) from their undistorted source: their
\* sources, destinations, corrected destinations and residuals, and the
\* errors of their back-tracked points, in the order of the tracked points.
C15_DisplacementFilter ==
    (PairDone /\ arg.homog.given) =>
        /\ Len(ret.src) = Len(MovedPoints) /\ Len(ret.dst) = Len(MovedPoints)
        /\ Len(ret.homog) = Len(MovedPoints) /\ Len(ret.ptserrors) = Len(MovedPoints)
        /\ \A k \in 1..Len(MovedPoints) :
              /\ ret.src[k] = UndistSrc[MovedPoints[k]]
              /\ ret.dst[k] = UndistDst[MovedPoints[k]]
              /\ HPoint(FMat(arg.homog.hmatrix), ret.homog[k]) = ret.dst[k]
              /\ ret.ptserrors[k] = PairTracked.error[MovedPoints[k]]
              /\ (ByFlow /\ arg.inv) =>
                    ret.xyz.xyzerr[k] =
                        Sqrt(Dist2(projectUV(ret.src)[k],
                                   projectUV(UndistBack)[MovedPoints[k]]))

\* of two tracked points the first, which the homography accounts for, has
\* been dropped and the second, which has moved, is kept with its corrected
\* destination
C15_Witness ==
    /\ PairDone /\ arg.homog.given
    /\ arg.homog.hmatrix[1][3] = 1
    /\ arg.calib # <<>>
    /\ Len(UndistSrc) = 2
    /\ MovedPoints = <<2>>
    /\ Len(ret.src) = 1
    /\ ret.homog[1] # ret.dst[1]

----------------------------------------------------------------------------
(* Velocity.calcVelocities and Homography.calcHomographies *)

\* the most images of a sequence
MaxImages == 3

\* "self._intrMat[2,0]!=0 and self._intrMat[2,1]!=0 and
\* self._intrMat[0,2]==0 and self._intrMat[1,2]==0"
NeedsTranspose(M) ==
    M[3][1] # F(0) /\ M[3][2] # F(0) /\ M[1][3] = F(0) /\ M[2][3] = F(0)

\* self._intrMat after the first getCamMatrixCV2: _intrMatCV2 is a view of
\* it (transposed or not), and the zeros and the one are written through
IntrAfterCV2(M) ==
    IF NeedsTranspose(M)
    THEN [M EXCEPT ![2][1] = F(0), ![1][2] = F(0), ![1][3] = F(0), ![2][3] = F(0),
                   ![3][3] = F(1)]
    ELSE [M EXCEPT ![1][2] = F(0), ![2][1] = F(0), ![3][1] = F(0), ![3][2] = F(0),
                   ![3][3] = F(1)]

\* self._intrMatCV2 after the first getCamMatrixCV2
CV2Of(M) ==
    IF NeedsTranspose(M) THEN Transpose(IntrAfterCV2(M)) ELSE IntrAfterCV2(M)

\* a call of getCamMatrixCV2 inside a run
getCamMatrixCV2 ==
    IF intrMatCV2 = <<>>
    THEN intrMat' = IntrAfterCV2(intrMat) /\ intrMatCV2' = CV2Of(intrMat)
    ELSE UNCHANGED <<intrMat, intrMatCV2>>

\* the methods of CamEnv that the runs call, as CamEnv.py names them
CamEnvMethods == {"getDEM", "getCamMatrixCV2", "getDistortCoeffsCv2"}

\* the camera environments given to Velocity and Homography: a CamEnv, or an
\* object that has the method getDistortCoeffsCV2 as well
Envs == {CamEnvMethods, CamEnvMethods \cup {"getDistortCoeffsCV2"}}

\* an entry of the homography list: None, or what calcHomography returns,
\* with the matrix (None if none was fitted) and <<xsd, ysd>>
NoEntry == [found |-> FALSE, hmatrix |-> NoMatrix, hpts |-> <<>>]

HomogEntries ==
    {NoEntry}
    \cup {[found |-> TRUE, hmatrix |-> h, hpts |-> <<0, 0>>] :
            h \in {NoMatrix, << <<1, 0, 1>>, <<0, 1, -1>>, <<0, 0, 1>> >>}}

\* the homography argument of Velocity for n images: None, or a list with
\* an entry for every pair
HomogModels(n) ==
    {[given |-> FALSE, pairs |-> <<>>]}
    \cup {[given |-> TRUE, pairs |-> p] : p \in [1..(n - 1) -> HomogEntries]}

\* params[0] with the tracking method: corners with optical flow, or a grid
\* with optical flow or template matching
Params == {<<"sparse", "opticalflow">>, <<"dense", "opticalflow">>,
           <<"dense", "cv2.TM_CCORR_NORMED">>}

\* what the images of a pair may give to the tracking by optical flow: no
\* point, or one or two points that are tracked
FlowCases ==
    UNION {[1..n -> {[p0 |-> <<0, 0>>, p1 |-> <<2, 2>>, p0r |-> <<0, 0>>]}] :
             n \in PairCounts}

\* what the images of a pair may give to template matching: no seed, one or
\* two seeds that are matched, or a seed for which matchTemplate raises
MatchCases ==
    UNION {[1..n -> {[uv |-> <<10, 10>>, raised |-> FALSE,
                      surf |-> [base |-> 1, marks |-> <<>>]]}] : n \in PairCounts}
    \cup {<< [uv |-> <<10, 10>>, raised |-> TRUE,
              surf |-> [base |-> 1, marks |-> <<>>]] >>}

PairCases(params) == IF params[2] = "opticalflow" THEN FlowCases ELSE MatchCases

\* the runs of calcVelocities over n images with the parameters p; cases is
\* what the images of each pair give
VelRunsOf(n, p) ==
    {[run |-> "calcVelocities", images |-> n, params |-> p, cases |-> c,
      min_features |-> m, homog |-> h, env |-> e, numpy |-> np] :
        c \in [1..(n - 1) -> PairCases(p)], m \in {1, 2}, h \in HomogModels(n),
        e \in Envs, np \in {"scalar", "elementwise"}}

VelRuns == UNION {VelRunsOf(n, p) : n \in 1..MaxImages, p \in Params}

HomogRuns ==
    {[run |-> "calcHomographies", images |-> n, env |-> e] :
        n \in 1..MaxImages, e \in Envs}

\* the image sequence after getImageArray() of its image n: the data of the
\* image is read and kept
getImageArray(images, n) == images \cup {n}

\* the image sequence after clearAll(), or clearImage() and
\* clearImageArray(), of its image n: the data of the image is let go
clearAll(images, n) == images \ {n}

\* the run ends in the exception exc: its locals are gone
RunRaise(exc) ==
    /\ pc' = "raised"
    /\ ret' = [op |-> arg.run, outcome |-> exc]
    /\ im0' = NoImage /\ im1' = NoImage
    /\ UNCHANGED <<imageSet, pair, velocity>>

\* the first image is loaded: im1=self._imageSet[0].getImageArray()
LoadFirst ==
    /\ pc' = "next"
    /\ im1' = 0
    /\ imageSet' = getImageArray(imageSet, 0)
    /\ UNCHANGED <<im0, pair, velocity, ret>>

\* the homog argument of pair i (from 0) of calcVelocities: [None, None]
\* without a homography, else [self._homog[i][0], self._homog[i][3]], which
\* needs an entry that can be indexed
PairHomog(h, i) ==
    IF ~h.given THEN [outcome |-> "ok", homog |-> NoneNone]
    ELSE IF ~h.pairs[i + 1].found THEN [outcome |-> "TypeError"]
    ELSE [outcome |-> "ok",
          homog |-> [given |-> TRUE, hmatrix |-> h.pairs[i + 1].hmatrix,
                     hpts |-> h.pairs[i + 1].hpts]]

\* pts of a pair from what its images give (c) and its homog argument (h);
\* the calibration is [mtx, distort] and invprojvars those of setProjection
PairPts(params, c, min_features, numpy, h) ==
    IF h.outcome # "ok" THEN [op |-> "calcVelocities", outcome |-> h.outcome]
    ELSE IF params[1] = "sparse"
    THEN calcSparseVelocity(c, 1, min_features, <<2>>, h.homog, TRUE)
    ELSE calcDenseVelocity(c, params[2], <<2, 4>>, 1, min_features, numpy, <<2>>,
                           h.homog, TRUE)

\* "velocity.append(pts)" when the pair has returned, else its exception
\* ends the run
PairEnd(r) ==
    IF r.outcome \in {"ok", "None"}
    THEN /\ velocity' = Append(velocity, r)
         /\ pair' = pair + 1
         /\ pc' = "next"
         /\ UNCHANGED <<imageSet, im0, im1, ret>>
    ELSE RunRaise(r.outcome)

\* calcVelocities up to its loop
StartVelocities ==
    /\ pc = "idle"
    /\ arg.run = "calcVelocities"
    /\ DEM' = getDEM(DEM)
    /\ getCamMatrixCV2
    /\ IF "getDistortCoeffsCV2" \in arg.env THEN LoadFirst
       ELSE RunRaise("AttributeError")
    /\ UNCHANGED <<attrs, tanCorr, radCorr, focLen, camCen, poseVars, invProjVars,
                   visible, nBuild, nCalls, arg>>

\* calcHomographies up to its loop
StartHomographies ==
    /\ pc = "idle"
    /\ arg.run = "calcHomographies"
    /\ LoadFirst
    /\ UNCHANGED <<calibVars, poseVars, invVars, arg>>

\* "im0=im1" and "im1=self._imageSet[i+1].getImageArray()"
NextImage ==
    /\ pc = "next"
    /\ pair < arg.images - 1
    /\ im0' = im1
    /\ im1' = pair + 1
    /\ imageSet' = getImageArray(imageSet, pair + 1)
    /\ pc' = "clear"
    /\ UNCHANGED <<calibVars, poseVars, invVars, arg, ret, pair, velocity>>

\* ClearImage that releases nothing
ClearImage_keeps ==
    /\ pc = "clear"
    /\ pc' = "track"
    /\ UNCHANGED <<calibVars, poseVars, invVars, arg, ret, imageSet, im0, im1, pair,
                   velocity>>

\* "self._imageSet[i].clearAll()", or clearImage() and clearImageArray()
ClearImage ==
    /\ pc = "clear"
    /\ imageSet' = clearAll(imageSet, pair)
    /\ pc' = "track"
    /\ UNCHANGED <<calibVars, poseVars, invVars, arg, ret, im0, im1, pair, velocity>>

\* the velocity of pair i of calcVelocities
TrackPair ==
    /\ pc = "track"
    /\ arg.run = "calcVelocities"
    /\ PairEnd(PairPts(arg.params, arg.cases[pair + 1], arg.min_features,
                        arg.numpy, PairHomog(arg.homog, pair)))
    /\ UNCHANGED <<calibVars, poseVars, invVars, arg>>

\* the homography of pair i of calcHomographies: the camera matrix, then
\* getDistortCoeffsCV2, then calcSparseHomography, a name that nothing defines
HomogPair ==
    /\ pc = "track"
    /\ arg.run = "calcHomographies"
    /\ getCamMatrixCV2
    /\ IF "getDistortCoeffsCV2" \in arg.env THEN RunRaise("NameError")
       ELSE RunRaise("AttributeError")
    /\ UNCHANGED <<attrs, tanCorr, radCorr, focLen, camCen, poseVars, invVars, arg>>

\* "return velocity", "return homog"
ReturnList ==
    /\ pc = "next"
    /\ pair = arg.images - 1
    /\ pc' = "done"
    /\ ret' = [op |-> arg.run, outcome |-> "ok", value |-> velocity]
    /\ im0' = NoImage /\ im1' = NoImage
    /\ UNCHANGED <<calibVars, poseVars, invVars, arg, imageSet, pair, velocity>>

InitSeq == Constructed /\ camloc = <<0, 0, 0>> /\ camDirection = <<0, 0, 0>>
           /\ arg \in VelRuns \cup HomogRuns

NextSeq ==
    \/ StartVelocities \/ StartHomographies \/ NextImage \/ ClearImage
    \/ TrackPair \/ HomogPair \/ ReturnList

SpecSeq == InitSeq /\ [][NextSeq]_vars

----------------------------------------------------------------------------
(* Runs over the image pairs: claims C13, C14, C16 and C17 *)

\* a run of calcVelocities with a camera environment that has every method
\* the run calls, and a numpy that compares an array with None as a whole
SoundEnv ==
    /\ arg.run = "calcVelocities"
    /\ "getDistortCoeffsCV2" \in arg.env
    /\ arg.numpy = "scalar"

\* pair i (from 0) has a homography with a matrix
HasHomog(i) == arg.homog.pairs[i + 1].found /\ arg.homog.pairs[i + 1].hmatrix # NoMatrix

\* a homography model is given and every pair has a homography with a matrix
SoundHomog ==
    arg.homog.given /\ \A i \in 0..(Len(arg.homog.pairs) - 1) : HasHomog(i)

\* the images of pair i (from 0) give fewer points than min_features
FewPoints(i) == Len(arg.cases[i + 1]) < arg.min_features

\* matchTemplate raises for a seed of pair i (from 0)
MatchRaises(i) ==
    /\ arg.params[2] # "opticalflow"
    /\ \E k \in 1..Len(arg.cases[i + 1]) : arg.cases[i + 1][k].raised

\* C13: a pair of calcVelocities that is left with fewer than min_features
\* points does not abort the run (its entry is None and the next pair is
\* processed); stated for the runs that track by optical flow with a sound
\* environment and a homography for every pair
C13_FailedPairSkipped ==
    (SoundEnv /\ SoundHomog /\ arg.params[2] = "opticalflow" /\ pc = "raised")
        => ~FewPoints(pair)

\* the images whose data is held: by the image sequence, or by im0 and im1
Resident == imageSet \cup ({im0, im1} \ {NoImage})

\* C14: during calcVelocities and calcHomographies at most two images are
\* resident; while pair (i, i+1) is processed image i+1 is loaded, image i is
\* released by the image sequence, and no image before i is resident
C14_TwoImagesResident ==
    /\ Cardinality(Resident) <= 2
    /\ pc = "track" =>
         /\ pair + 1 \in imageSet /\ im1 = pair + 1
         /\ pair \notin imageSet
         /\ \A j \in Resident : j >= pair

\* the second pair of a run is being processed, after the first image was
\* loaded and released
C14_Witness ==
    /\ pc = "track" /\ pair = 1
    /\ Len(velocity) = 1
    /\ Resident = {1, 2}

\* C16: in a run of Velocity without a homography model no pair applies a
\* homography: a pair that tracks at least min_features points ends with a
\* result, which has all the tracked points and an empty corrected slot
C16_NoModelNoCorrection ==
    (SoundEnv /\ ~arg.homog.given) =>
        /\ pc = "raised" => (FewPoints(pair) \/ MatchRaises(pair))
        /\ \A i \in 1..Len(velocity) :
             velocity[i].outcome = "ok" =>
                 /\ velocity[i].homog = None
                 /\ Len(velocity[i].src) = Len(arg.cases[i])

\* C17: a pair whose homography could not be obtained (no entry, or an entry
\* without a matrix) does not abort calcVelocities: a run is never ended by
\* a pair that tracks at least min_features points
C17_NoHomographyNoAbort ==
    (SoundEnv /\ arg.homog.given /\ pc = "raised")
        => (FewPoints(pair) \/ MatchRaises(pair) \/ HasHomog(pair))

----------------------------------------------------------------------------
(* Homography of points, matched locations, identical images: claims C18,
   C19 and C20 *)

\* C18: for an invertible matrix H and any point set P (an array or a list),
\* apply_persp_homographyPts with inverse=True on what
\* apply_persp_homographyPts(P, H) returns gives back P
C18_InverseUndoesForward ==
    (ret # NoCall /\ arg.homog # NoMatrix /\ Det(arg.homog) # 0)
        => (ret.back.outcome = "ok" /\ ret.back.value = arg.hpts)

\* the two squared-difference metrics
SqDiff == {"cv2.TM_SQDIFF", "cv2.TM_SQDIFF_NORMED"}

\* the lowest value of the surface s for a squared-difference metric, and
\* the highest for the other metrics
ExtremeVal(s, method) ==
    IF method \in SqDiff THEN MinOf(SurfVals(s)) ELSE MaxOf(SurfVals(s))

\* the position cv2.minMaxLoc reports for that value on s, of edge n
ExtremeLoc(s, method, n) ==
    IF method \in SqDiff THEN minMaxLoc(s, n).min_loc ELSE minMaxLoc(s, n).max_loc

\* C19: for each of the six metrics the point matched for a seed is the
\* position, in image coordinates, of the minimum of the interpolated
\* correlation surface for the two squared-difference metrics, and of its
\* maximum for the other four
C19_ExtremumByMetric ==
    Matched =>
        \A i \in 1..Len(arg.pts) :
            /\ SurfVal(arg.pts[i].surf,
                       ExtremeLoc(arg.pts[i].surf, arg.method,
                                  UpEdge(arg.sizes[1], arg.sizes[2])))
                   = ExtremeVal(arg.pts[i].surf, arg.method)
            /\ ret.p1[i] = TrackedLoc(arg.pts[i].uv,
                                      ExtremeLoc(arg.pts[i].surf, arg.method,
                                                 UpEdge(arg.sizes[1], arg.sizes[2])),
                                      UpEdge(arg.sizes[1], arg.sizes[2]))

\* templateMatch has returned a point for a squared-difference metric on a
\* surface that has a pit and a peak at different positions
C19_Witness ==
    /\ Matched
    /\ arg.method = "cv2.TM_SQDIFF_NORMED"
    /\ Len(ret.p1) >= 1
    /\ ExtremeVal(arg.pts[1].surf, "cv2.TM_SQDIFF") = 0
    /\ ExtremeVal(arg.pts[1].surf, "cv2.TM_CCORR") = 2
    /\ ret.p1[1] # TrackedLoc(arg.pts[1].uv,
                              ExtremeLoc(arg.pts[1].surf, "cv2.TM_CCORR",
                                         UpEdge(arg.sizes[1], arg.sizes[2])),
                              UpEdge(arg.sizes[1], arg.sizes[2]))

\* the position on the interpolated surface of the template at zero shift:
\* template and search window are cut around the same pixel, so the template
\* lies (searchsize - templatesize) / 2 pixels inside the window
ZeroShift(templatesize, searchsize) ==
    <<((searchsize - templatesize) \div 2) * SubPx,
      ((searchsize - templatesize) \div 2) * SubPx>>

\* the images of the pair are identical as far as template matching sees:
\* every surface has its single extremum at the zero shift
IdenticalMatch ==
    /\ arg.fn = "calcDenseVelocity" /\ arg.method # "opticalflow"
    /\ \A i \in 1..Len(arg.pts) :
         /\ DOMAIN arg.pts[i].surf.marks = {ZeroShift(arg.sizes[1], arg.sizes[2])}
         /\ ExtremeLoc(arg.pts[i].surf, arg.method, UpEdge(arg.sizes[1], arg.sizes[2]))
                = ZeroShift(arg.sizes[1], arg.sizes[2])

\* the images of the pair are identical as far as optical flow sees: every
\* seed is tracked to itself
IdenticalFlow == ByFlow /\ \A i \in 1..Len(arg.pts) : arg.pts[i].p1 = arg.pts[i].p0

\* C20: for two identical images and no homography, every point of the
\* result is at its seed in the second image, and its pixel and world
\* displacements are 0
C20_IdenticalImagesNoDisplacement ==
    (PairDone /\ ~arg.homog.given /\ (IdenticalMatch \/ IdenticalFlow)) =>
        \A k \in 1..Len(ret.src) :
            /\ ret.dst[k] = ret.src[k]
            /\ ret.pxvel[k] = Sqrt(F(0))
            /\ ret.xyz.xyzvel # None => ret.xyz.xyzvel[k] = Sqrt(F(0))

----------------------------------------------------------------------------
(* The records of an image pair: claims C23, C24 and C25 *)

\* the tracked points that are in the result, by their index in the tracked
\* set: with a homography those that have moved, else all
Kept == IF arg.homog.given THEN MovedPoints ELSE [i \in 1..Len(UndistSrc) |-> i]

\* the destination points the displacements are measured to: the
\* homography-corrected ones if there are any
EndPx == IF ret.homog = None THEN ret.dst ELSE ret.homog

\* the list x is there and has n entries
HasLen(x, n) == x # None /\ Len(x) = n

\* C23 as stated: in a result of calcSparseVelocity or calcDenseVelocity the
\* nine lists (world displacement, start and end world coordinates, world
\* backtracking error, pixel displacement, start, end and corrected pixel
\* coordinates, residuals) all have the length of the surviving points
C23_NineLists ==
    PairDone =>
        /\ HasLen(ret.xyz.xyzvel, Len(Kept)) /\ HasLen(ret.xyz.xyzs, Len(Kept))
        /\ HasLen(ret.xyz.xyzd, Len(Kept)) /\ HasLen(ret.xyz.xyzerr, Len(Kept))
        /\ HasLen(ret.pxvel, Len(Kept)) /\ HasLen(ret.src, Len(Kept))
        /\ HasLen(ret.dst, Len(Kept)) /\ HasLen(ret.homog, Len(Kept))
        /\ HasLen(ret.ptserrors, Len(Kept))

\* the world lists of the result are there, one entry per surviving point
\* that belongs to the point of the same index; the backtracking error is
\* None with template matching
WorldLists ==
    /\ HasLen(ret.xyz.xyzvel, Len(Kept))
    /\ HasLen(ret.xyz.xyzs, Len(Kept))
    /\ HasLen(ret.xyz.xyzd, Len(Kept))
    /\ IF ByFlow THEN HasLen(ret.xyz.xyzerr, Len(Kept)) ELSE ret.xyz.xyzerr = None
    /\ ret.xyz.xyzs = projectUV(ret.src)
    /\ ret.xyz.xyzd = projectUV(EndPx)

\* the world lists of the result are all None
NoWorldLists ==
    /\ ret.xyz.xyzvel = None /\ ret.xyz.xyzs = None
    /\ ret.xyz.xyzd = None /\ ret.xyz.xyzerr = None

\* C23: a result of calcSparseVelocity or calcDenseVelocity holds one entry
\* per surviving point, at the same index, in every list it has: pixel
\* displacement, start and end pixel coordinates and residuals always; the
\* corrected pixel coordinates if a homography is given (else None); the
\* world displacement and world coordinates if inverse projection variables
\* are given (else None); the world backtracking error if they are given and
\* the tracking is by optical flow (else None)
C23_OneEntryPerPoint ==
    PairDone =>
        /\ Len(ret.pxvel) = Len(Kept) /\ Len(ret.src) = Len(Kept)
        /\ Len(ret.dst) = Len(Kept) /\ Len(ret.ptserrors) = Len(Kept)
        /\ IF arg.homog.given THEN HasLen(ret.homog, Len(Kept)) ELSE ret.homog = None
        /\ IF arg.inv THEN WorldLists ELSE NoWorldLists
        /\ \A k \in 1..Len(Kept) :
              /\ ret.src[k] = UndistSrc[Kept[k]]
              /\ ret.dst[k] = UndistDst[Kept[k]]
              /\ ret.ptserrors[k] = PairTracked.error[Kept[k]]

\* of two points tracked by optical flow one is dropped by the displacement
\* filter, and the result has every list, each with the one point left
C23_Witness ==
    /\ PairDone /\ ByFlow /\ arg.homog.given /\ arg.inv
    /\ Len(UndistSrc) = 2
    /\ Kept = <<2>>
    /\ PairTracked.error[1] # PairTracked.error[2]
    /\ Len(ret.xyz.xyzerr) = 1 /\ Len(ret.homog) = 1 /\ Len(ret.ptserrors) = 1

\* (b - a) squared and summed over the three coordinates
Dist3(a, b) == FAdd(Dist2(a, b), FMul(FSub(b[3], a[3]), FSub(b[3], a[3])))

\* C24: in every result with world coordinates, for every tracking method,
\* the world backtracking error of a point is the distance between its
\* inverse-projected source and its inverse-projected back-tracked point
C24_BacktrackError ==
    (PairDone /\ arg.inv) =>
        /\ HasLen(ret.xyz.xyzerr, Len(Kept))
        /\ \A k \in 1..Len(Kept) :
              ret.xyz.xyzerr[k] = Sqrt(Dist3(projectUV(UndistSrc)[Kept[k]],
                                             projectUV(UndistBack)[Kept[k]]))

\* C25: in every result the pixel displacement of a point is the distance
\* between its source pixel and its (homography-corrected) destination
\* pixel, and its world displacement is the distance between its start and
\* end world coordinates (X, Y, Z)
C25_EuclideanDisplacement ==
    PairDone =>
        /\ \A k \in 1..Len(ret.src) :
              ret.pxvel[k] = Sqrt(Dist2(ret.src[k], EndPx[k]))
        /\ arg.inv =>
              \A k \in 1..Len(ret.src) :
                  ret.xyz.xyzvel[k] = Sqrt(Dist3(ret.xyz.xyzs[k], ret.xyz.xyzd[k]))

----------------------------------------------------------------------------
(* Velocity.seedGrid *)

\* |a|
FAbs(a) == <<Abs(a[1]), a[2]>>

\* round(n/d) for n >= 0 and d > 0: a half goes away from zero in Python 2
\* and to the even neighbour in Python 3
Round(n, d, python) ==
    IF 2 * (n % d) < d THEN n \div d
    ELSE IF 2 * (n % d) > d THEN (n \div d) + 1
    ELSE IF python = 2 THEN (n \div d) + 1
    ELSE IF (n \div d) % 2 = 0 THEN n \div d
    ELSE (n \div d) + 1

\* np.linspace(a, b, n): n values from a to b, both ends included
linspace(a, b, n) ==
    [k \in 1..n |-> IF n = 1 THEN F(a) ELSE Frac(a * (n - 1) + (k - 1) * (b - a), n - 1)]

\* zip(meshx.flatten(), meshy.flatten()): the positions of the mesh row by
\* row, position k (from 1) of a mesh with nx columns
MeshPoint(linx, liny, k) ==
    <<linx[((k - 1) % Len(linx)) + 1], liny[((k - 1) \div Len(linx)) + 1]>>

meshgrid(linx, liny) ==
    [k \in 1..(Len(linx) * Len(liny)) |-> MeshPoint(linx, liny, k)]

\* (np.abs(coords - a)).argmin(): the first index of coords nearest to a
Nearest(coords, a) ==
    CHOOSE j \in 1..Len(coords) :
        \A i \in 1..Len(coords) :
            /\ FLeq(FAbs(FSub(F(coords[j]), a)), FAbs(FSub(F(coords[i]), a)))
            /\ i < j => ~FLeq(FAbs(FSub(F(coords[i]), a)), FAbs(FSub(F(coords[j]), a)))

\* no mask: None
NoMask == <<>>

\* MaskedZ that masks with the mask itself
MaskedZ_inverted(demz, mask) ==
    IF mask = NoMask THEN demz
    ELSE [r \in 1..Len(demz) |->
            [c \in 1..Len(demz[r]) |-> IF mask[r][c] THEN NaN ELSE demz[r][c]]]

\* ma.masked_array(demz, np.logical_not(mask)).filled(np.nan): the heights
\* outside the mask are not-a-number
MaskedZ(demz, mask) ==
    IF mask = NoMask THEN demz
    ELSE [r \in 1..Len(demz) |->
            [c \in 1..Len(demz[r]) |-> IF mask[r][c] THEN demz[r][c] ELSE NaN]]

\* the height looked up for the mesh position p
HeightAt(dem, demz, p) == demz[Nearest(dem.y, p[2])][Nearest(dem.x, p[1])]

\* the rows <<a, b, z>> of the mesh positions whose height is a number
RECURSIVE GridRows(_, _, _)
GridRows(dem, demz, mesh) ==
    IF mesh = <<>> THEN <<>>
    ELSE (IF IsNaN(HeightAt(dem, demz, Head(mesh))) THEN <<>>
          ELSE << <<Head(mesh)[1], Head(mesh)[2], HeightAt(dem, demz, Head(mesh))>> >>)
         \o GridRows(dem, demz, Tail(mesh))

\* projectXYZ for a camera at the origin that looks along Z with focal
\* length 1: a point at or behind the camera gets not-a-number pixels
projectXYZ(row) ==
    IF FLeq(row[3], F(0)) THEN <<NaN, NaN>>
    ELSE <<FMul(row[1], FInv(row[3])), FMul(row[2], FInv(row[3]))>>

\* the return of seedGrid for the rows xyz
GridReturn(xyz) ==
    [op |-> "seedGrid", outcome |-> "ok", xyz |-> xyz,
     uv |-> [i \in 1..Len(xyz) |-> projectXYZ(xyz[i])]]

\* seedGrid(dem, griddistance, projvars, mask); python is the version of
\* Python that runs it
seedGrid(dem, griddistance, mask, python) ==
    GridReturn(
        GridRows(dem, MaskedZ(dem.z, mask),
                 meshgrid(linspace(dem.extent[1], dem.extent[2],
                                   Round(dem.extent[2] - dem.extent[1],
                                         griddistance[1], python)),
                          linspace(dem.extent[3], dem.extent[4],
                                   Round(dem.extent[4] - dem.extent[3],
                                         griddistance[2], python)))))

\* the DEMs followed: three columns and two rows of cells, each with a height
\* in front of the camera (1), behind it (-1) or none (not-a-number)
GridDems ==
    {[x |-> <<0, 2, 4>>, y |-> <<0, 2>>, extent |-> <<0, 4, 0, 2>>, z |-> h] :
        h \in [1..2 -> [1..3 -> {F(1), NaN}]]
              \cup {[r \in 1..2 |-> [c \in 1..3 |-> F(-1)]]}}

\* the masks followed: none, and those that leave out at most one cell, or
\* every cell
GridMasks ==
    {NoMask, [r \in 1..2 |-> [c \in 1..3 |-> FALSE]]}
    \cup {[r \in 1..2 |-> [c \in 1..3 |-> <<r, c>> # out]] :
            out \in (1..2) \X (0..3)}

GridInputs ==
    {[dem |-> d, griddistance |-> <<gx, gy>>, mask |-> m, python |-> py] :
        d \in GridDems, gx \in {1, 2, 8}, gy \in {1, 2}, m \in GridMasks,
        py \in {2, 3}}

\* a call of seedGrid
SeedGrid ==
    /\ ret = NoCall
    /\ ret' = seedGrid(arg.dem, arg.griddistance, arg.mask, arg.python)
    /\ UNCHANGED <<calibVars, poseVars, invVars, seqVars, arg>>

InitGrid == Constructed /\ camloc = <<0, 0, 0>> /\ camDirection = <<0, 0, 0>>
            /\ arg \in GridInputs

NextGrid == SeedGrid

SpecGrid == InitGrid /\ [][NextGrid]_vars

----------------------------------------------------------------------------
(* The grid of seeds: claims C21 and C30 *)

GridDone == ret # NoCall /\ ret.op = "seedGrid"

\* the numbers of grid positions in X and in Y
SampleX ==
    Round(arg.dem.extent[2] - arg.dem.extent[1], arg.griddistance[1], arg.python)

SampleY ==
    Round(arg.dem.extent[4] - arg.dem.extent[3], arg.griddistance[2], arg.python)

\* the DEM has a height in every cell and no cell is masked out
FullDem ==
    /\ \A r \in 1..2, c \in 1..3 : ~IsNaN(arg.dem.z[r][c])
    /\ arg.mask = NoMask \/ \A r \in 1..2, c \in 1..3 : arg.mask[r][c]

\* C21: for a DEM with no masked or not-a-number cell seedGrid returns
\* round(width / gx) x round(height / gy) points, and points next to each
\* other in the grid are gx apart in X and gy apart in Y
C21_GridCountAndSpacing ==
    (GridDone /\ FullDem) =>
        /\ Len(ret.xyz) = SampleX * SampleY
        /\ \A i \in 1..(Len(ret.xyz) - 1) :
              ret.xyz[i + 1][2] = ret.xyz[i][2] =>
                  FSub(ret.xyz[i + 1][1], ret.xyz[i][1]) = F(arg.griddistance[1])
        /\ \A i \in 1..(Len(ret.xyz) - SampleX) :
              FSub(ret.xyz[i + SampleX][2], ret.xyz[i][2]) = F(arg.griddistance[2])

\* the positions of the grid, row by row
GridMesh ==
    meshgrid(linspace(arg.dem.extent[1], arg.dem.extent[2], SampleX),
             linspace(arg.dem.extent[3], arg.dem.extent[4], SampleY))

\* the DEM cell nearest to the position p: <<row, column>>
NearestCell(p) == <<Nearest(arg.dem.y, p[2]), Nearest(arg.dem.x, p[1])>>

\* the DEM cell nearest to p lies inside the mask and has a height
InMaskWithHeight(p) ==
    /\ arg.mask = NoMask \/ arg.mask[NearestCell(p)[1]][NearestCell(p)[2]]
    /\ ~IsNaN(arg.dem.z[NearestCell(p)[1]][NearestCell(p)[2]])

\* C30: seedGrid returns the positions of the grid whose nearest DEM cell
\* lies inside the mask and has a height that is a number, in the order of
\* the grid and with that height; the pixel array has one row for every row
\* of the world array, which is the projection of that row, also for points
\* behind the camera or out of the frame
C30_GridInMask ==
    GridDone =>
        /\ [i \in 1..Len(ret.xyz) |-> <<ret.xyz[i][1], ret.xyz[i][2]>>]
               = SelectSeq(GridMesh, InMaskWithHeight)
        /\ \A i \in 1..Len(ret.xyz) :
              ret.xyz[i][3] = arg.dem.z[NearestCell(ret.xyz[i])[1]][NearestCell(ret.xyz[i])[2]]
        /\ Len(ret.uv) = Len(ret.xyz)
        /\ \A i \in 1..Len(ret.xyz) :
              ret.uv[i] = IF FLeq(ret.xyz[i][3], F(0)) THEN <<NaN, NaN>>
                          ELSE <<FMul(ret.xyz[i][1], FInv(ret.xyz[i][3])),
                                 FMul(ret.xyz[i][2], FInv(ret.xyz[i][3]))>>

\* a mask leaves out a cell that has a height, another cell inside the mask
\* has none, and the grid returned has some of its positions and not all
C30_Witness ==
    /\ GridDone
    /\ arg.mask # NoMask
    /\ \E r \in 1..2, c \in 1..3 : ~arg.mask[r][c] /\ ~IsNaN(arg.dem.z[r][c])
    /\ \E r \in 1..2, c \in 1..3 : arg.mask[r][c] /\ IsNaN(arg.dem.z[r][c])
    /\ Len(ret.xyz) > 0
    /\ Len(ret.xyz) < Len(GridMesh)
    /\ Len(ret.uv) = Len(ret.xyz)

----------------------------------------------------------------------------
(* CamCalib.getCamMatrix, getCalibdata, getDistortCoeffsCv2, getCamMatrixCV2
   and CamEnv.project on a calibrated camera *)

\* the intrinsic matrices of the cameras: the reference one, one with a skew
\* where calibrateImages puts it, one in the layout of OpenCV with a skew,
\* and one whose principal point has the column 0
CamIntrMats ==
    {RefIntrMat,
     [RefIntrMat EXCEPT ![1][2] = F(1)],
     << <<F(1), F(1), F(2)>>, <<F(0), F(1), F(1)>>, <<F(0), F(0), F(1)>> >>,
     [RefIntrMat EXCEPT ![3][1] = F(0)]}

\* the stored radial coefficients <<k1, k2, k3, k4, k5, k6>>
CamRadCorrs ==
    {[i \in 1..6 |-> F(0)]}
    \cup {<<F(1), F(2), F(k3), F(k4), F(k5), F(0)>> :
             k3 \in {0, 3}, k4 \in {0, 4}, k5 \in {0, 5}}

\* the stored tangential coefficients <<p1, p2>>
CamTanCorrs == {<<F(0), F(0)>>, <<F(1), F(2)>>}

\* the arrays of world points given to project
CamPoints ==
    {<< <<1, 1, 1>> >>, << <<2, 1, 1>>, <<0, 0, -1>> >>, << <<1, 2, 2>>, <<1, 0, 1>> >>}

\* the return of the value by the method op
ReturnOf(op, value) == [op |-> op, outcome |-> "ok", value |-> value]

\* CamCalib.getDistortCoeffsCv2 on the stored coefficients: the third branch
\* reads self._radCorrc, an attribute no CamCalib has
getDistortCoeffsCv2(rad, tan) ==
    IF rad[4] # F(0)
    THEN ReturnOf("getDistortCoeffsCv2", SubSeq(rad, 1, 2) \o tan \o SubSeq(rad, 3, 6))
    ELSE IF rad[3] # F(0)
         THEN ReturnOf("getDistortCoeffsCv2", SubSeq(rad, 1, 2) \o tan \o SubSeq(rad, 3, 3))
         ELSE [op |-> "getDistortCoeffsCv2", outcome |-> "AttributeError"]

\* a call of getCamMatrixCV2
CallGetCamMatrixCV2 ==
    /\ getCamMatrixCV2
    /\ ret' = ReturnOf("getCamMatrixCV2", intrMatCV2')
    /\ UNCHANGED <<attrs, tanCorr, radCorr, focLen, camCen, poseVars, invVars,
                   seqVars, arg>>

\* a call of getCamMatrix
CallGetCamMatrix ==
    /\ ret' = ReturnOf("getCamMatrix", intrMat)
    /\ UNCHANGED <<calibVars, poseVars, invVars, seqVars, arg>>

\* a call of getCalibdata
CallGetCalibdata ==
    /\ ret' = ReturnOf("getCalibdata", <<intrMat, tanCorr, radCorr>>)
    /\ UNCHANGED <<calibVars, poseVars, invVars, seqVars, arg>>

\* a call of getDistortCoeffsCv2
CallGetDistortCoeffsCv2 ==
    /\ ret' = getDistortCoeffsCv2(radCorr, tanCorr)
    /\ UNCHANGED <<calibVars, poseVars, invVars, seqVars, arg>>

\* a call of project on the points arg.xyz
CallProject ==
    /\ ret' = project(arg.xyz, camloc, camDirection, focLen, camCen, refImage)
    /\ UNCHANGED <<calibVars, poseVars, invVars, seqVars, arg>>

\* a camera made from the calibration <<arg.calib, tanCorr, radCorr>>, and
\* the points arg.xyz
InitCam ==
    /\ arg \in [calib : CamIntrMats, xyz : CamPoints]
    /\ attrs = EnvAttrs \cup CalibAttrs
    /\ intrMat = arg.calib
    /\ tanCorr \in CamTanCorrs
    /\ radCorr \in CamRadCorrs
    /\ focLen = <<intrMat[1][1], intrMat[2][2]>>
    /\ camCen = <<intrMat[3][1], intrMat[3][2]>>
    /\ intrMatCV2 = <<>>
    /\ camloc = <<0, 0, 0>>
    /\ camDirection \in {<<0, 0, 0>>, <<0, 0, 90>>}
    /\ refImage = RefImageSize
    /\ calibPath = RefCalibPath
    /\ DEM = <<>> /\ invProjVars = <<>> /\ visible = <<>>
    /\ ret = NoCall
    /\ nBuild = 0 /\ nCalls = 0
    /\ SeqIdle

NextCam ==
    \/ CallGetCamMatrixCV2
    \/ CallGetCamMatrix
    \/ CallGetCalibdata
    \/ CallGetDistortCoeffsCv2
    \/ CallProject

SpecCam == InitCam /\ [][NextCam]_vars

----------------------------------------------------------------------------
(* The calibrated camera: claims C26, C27 and C29 *)

\* project has returned its three arrays
ProjectDone == ret.op = "project" /\ ret.outcome = "ok"

\* row i of arg.xyz in the frame of the camera
CamFrame(i) == RowDot(SubCamloc(arg.xyz[i], camloc), Transpose(getR(camDirection)))

\* <<fx x/z + cx, fy y/z + cy>> for the camera-frame point c, with the
\* intrinsic matrix the camera was made from; not-a-number at or behind it
Pinhole(c) ==
    IF c[3] <= 0 THEN <<NaN, NaN>>
    ELSE <<FAdd(FMul(arg.calib[1][1], Frac(c[1], c[3])), arg.calib[3][1]),
           FAdd(FMul(arg.calib[2][2], Frac(c[2], c[3])), arg.calib[3][2])>>

\* the pixel <<u, v>> of a point of depth z lies in the image
PinholeInFrame(z, uv) ==
    /\ z > 0
    /\ FLeq(F(1), uv[1]) /\ FLeq(uv[1], F(refImage[2]))
    /\ FLeq(F(1), uv[2]) /\ FLeq(uv[2], F(refImage[1]))

\* C26: project gives every point the pixel u = fx x/z + cx, v = fy y/z + cy
\* of its camera-frame coordinates, its depth z and the in-frame flag of that
\* pixel, whatever the radial and tangential coefficients of the camera: the
\* result is a function of the pose, the intrinsic matrix and the point only.
C26_ProjectIgnoresDistortion ==
    ProjectDone =>
        \A i \in 1..Len(arg.xyz) :
            /\ ret.uv[i] = Pinhole(CamFrame(i))
            /\ ret.depth[i] = CamFrame(i)[3]
            /\ ret.inframe[i] = PinholeInFrame(CamFrame(i)[3], Pinhole(CamFrame(i)))

\* a camera with non-zero radial and tangential coefficients has projected a
\* point into the image
C26_Witness ==
    /\ ProjectDone
    /\ radCorr[1] # F(0) /\ radCorr[4] # F(0) /\ tanCorr[1] # F(0)
    /\ ret.inframe[1]
    /\ ret.uv[1] = <<F(1), F(2)>>

\* the coefficients in the order of OpenCV, as long as the last non-zero one
\* of k3..k6 requires
OpenCVCoeffs(rad, tan) ==
    IF rad[4] # F(0)
    THEN <<rad[1], rad[2], tan[1], tan[2], rad[3], rad[4], rad[5], rad[6]>>
    ELSE IF rad[3] # F(0)
         THEN <<rad[1], rad[2], tan[1], tan[2], rad[3]>>
         ELSE <<rad[1], rad[2], tan[1], tan[2]>>

\* C27: getDistortCoeffsCv2 returns (k1,k2,p1,p2,k3,k4,k5,k6) when k4 is not
\* 0, (k1,k2,p1,p2,k3) when k4 is 0 and k3 is not, and (k1,k2,p1,p2) when k3
\* and k4 are 0; no stored coefficient that is not 0 is left out.
C27_DistortCoeffsOpenCV ==
    ret.op = "getDistortCoeffsCv2" =>
        /\ ret.outcome = "ok"
        /\ ret.value = OpenCVCoeffs(radCorr, tanCorr)
        /\ \A i \in 3..6 : radCorr[i] # F(0) => Len(ret.value) >= i + 2

\* C29: calls of getCamMatrixCV2 leave the calibration as it was made: the
\* matrix of the camera, and so what getCamMatrix and getCalibdata return, is
\* the matrix the camera was made from, skew and principal point included,
\* and every call of getCamMatrixCV2 returns the same matrix, with zeros at
\* [0,1], [1,0], [2,0], [2,1] and a one at [2,2].
C29_CV2LeavesCalibration ==
    /\ intrMat = arg.calib
    /\ ret.op = "getCamMatrix" => ret.value = arg.calib
    /\ ret.op = "getCalibdata" => ret.value = <<arg.calib, tanCorr, radCorr>>
    /\ ret.op = "getCamMatrixCV2" =>
          /\ ret.value = CV2Of(arg.calib)
          /\ ret.value[1][2] = F(0) /\ ret.value[2][1] = F(0)
          /\ ret.value[3][1] = F(0) /\ ret.value[3][2] = F(0)
          /\ ret.value[3][3] = F(1)

----------------------------------------------------------------------------
(* The two kinds of point sets: claim C28 *)

\* C28: apply_persp_homographyPts on n points, given as an array or as a
\* list, returns the n points put through the matrix, in a container of the
\* same kind and in the same order; it returns None only for an input that
\* is neither an array nor a list.
C28_ArrayOrList ==
    (ret # NoCall /\ arg.homog # NoMatrix) =>
        /\ ret.there.outcome = "ok"
        /\ ret.there.value.kind = arg.hpts.kind
        /\ Len(ret.there.value.rows) = Len(arg.hpts.rows)
        /\ ret.there.value.rows = HPoints(FMat(arg.homog), arg.hpts.rows)

----------------------------------------------------------------------------
(* Point arrays of different lengths: claim C22 *)

\* the match of a seed of the pair has failed, so that the seeds are more
\* than the points matched for them
MatchFailed == ~ByFlow /\ \E i \in 1..Len(arg.pts) : arg.pts[i].raised

\* the lists that the result pairs index by index have one length
OneLength ==
    /\ Len(ret.src) = Len(ret.dst) /\ Len(ret.src) = Len(EndPx)
    /\ Len(ret.src) = Len(ret.pxvel) /\ Len(ret.src) = Len(ret.ptserrors)
    /\ arg.inv =>
          /\ Len(ret.xyz.xyzs) = Len(ret.src) /\ Len(ret.xyz.xyzd) = Len(ret.src)
          /\ Len(ret.xyz.xyzvel) = Len(ret.src)
          /\ ret.xyz.xyzerr # None => Len(ret.xyz.xyzerr) = Len(ret.src)

====
